---- MODULE Spec2Model ----
(***************************************************************************)
(* Model of the valuation screener: the multiple / trend / VIP signal      *)
(* computation of src/metrics.py, the provider boundary of                 *)
(* src/market_data.py and the ranked table of src/screens.py.              *)
(*                                                                         *)
(* Numbers.  The program computes on Python floats.  The model draws       *)
(* integer inputs; a quotient is kept as an exact fraction [num, den]      *)
(* with den > 0 and compared by cross-multiplication.  An optional value   *)
(* (Python None / pandas NaN) is the empty tuple, a present value v is     *)
(* the one-element tuple <<v>>.                                            *)
(***************************************************************************)
EXTENDS Integers, Sequences, FiniteSets, TLC

VARIABLES
    \* direct calls of the metrics functions on a snapshot
    snapshot, cm, signal, evalPc,
    \* build_recommendations / build_single_ticker_result
    country, universe, provider, snapshots, rows, filters, table, single, pc,
    \* direct calls of classify_sales_trend and of evaluate_vip
    trendIn, trendOut, trendPc, vipIn, vipOut, vipPc,
    \* direct calls of resample_daily_to_weekly and find_latest_weekly_breakout
    dailyIn, weeklyOut, weeklyPc, frameIn, breakoutOut, breakoutPc,
    \* direct calls of apply_target_price_formula
    baseIn, rateIn, multIn, formulaOut, formulaPc,
    \* direct calls of _evaluate_grid
    eventsIn, ratesIn, multsIn, cutoffIn, gridOut, bestOut, gridPc,
    \* main of the calibration job
    jobArgs, jobEvents, jobTable, jobBest, jobWritten, jobExit, jobPc,
    \* direct calls of normalize_ticker_input
    normMarket, seedIn, universeIn, tickerIn, normOut, normAgain, normPc,
    \* direct calls of _extract_ocf_data
    ocfIn, ocfOut, ocfPc,
    \* direct calls of _detect_breakout_rows
    detIn, detCap, detHorizon, detOut, detLatest, detPc,
    \* one event at one grid point, and the formula on the event's base
    pointEvent, pointRate, pointMult, pointGrid, pointFormula, pointPc,
    \* repeated calls of apply_target_price_formula on the base cached for a ticker
    builtBase, heldBase, callLog,
    \* the cache files, the app sessions and the daily_refresh job
    diskFrames, metaFile, clock, sessions, refreshJob

evalVars == <<snapshot, cm, signal, evalPc>>
batchVars == <<country, universe, provider, snapshots, rows, filters, table, single, pc>>
trendVars == <<trendIn, trendOut, trendPc>>
vipVars == <<vipIn, vipOut, vipPc>>
weeklyVars == <<dailyIn, weeklyOut, weeklyPc>>
breakoutVars == <<frameIn, breakoutOut, breakoutPc>>
formulaVars == <<baseIn, rateIn, multIn, formulaOut, formulaPc>>
gridVars == <<eventsIn, ratesIn, multsIn, cutoffIn, gridOut, bestOut, gridPc>>
jobVars == <<jobArgs, jobEvents, jobTable, jobBest, jobWritten, jobExit, jobPc>>
normVars == <<normMarket, seedIn, universeIn, tickerIn, normOut, normAgain, normPc>>
ocfVars == <<ocfIn, ocfOut, ocfPc>>
detectVars == <<detIn, detCap, detHorizon, detOut, detLatest, detPc>>
pointVars == <<pointEvent, pointRate, pointMult, pointGrid, pointFormula, pointPc>>
cachedVars == <<builtBase, heldBase, callLog>>
cacheVars == <<diskFrames, metaFile, clock, sessions, refreshJob>>
vars == <<evalVars, batchVars, trendVars, vipVars, weeklyVars, breakoutVars,
          formulaVars, gridVars,
          jobVars,
          normVars,
          ocfVars,
          detectVars,
          pointVars,
          cachedVars,
          cacheVars>>

\* what the actions of one specification leave alone
notEvalVars == <<batchVars, trendVars, vipVars, weeklyVars, breakoutVars, formulaVars, gridVars, jobVars, normVars, ocfVars, detectVars, pointVars, cachedVars, cacheVars>>
notBatchVars == <<evalVars, trendVars, vipVars, weeklyVars, breakoutVars, formulaVars, gridVars, jobVars, normVars, ocfVars, detectVars, pointVars, cachedVars, cacheVars>>
notTrendVars == <<evalVars, batchVars, vipVars, weeklyVars, breakoutVars, formulaVars, gridVars, jobVars, normVars, ocfVars, detectVars, pointVars, cachedVars, cacheVars>>
notVipVars == <<evalVars, batchVars, trendVars, weeklyVars, breakoutVars, formulaVars, gridVars, jobVars, normVars, ocfVars, detectVars, pointVars, cachedVars, cacheVars>>
notWeeklyVars == <<evalVars, batchVars, trendVars, vipVars, breakoutVars, formulaVars, gridVars, jobVars, normVars, ocfVars, detectVars, pointVars, cachedVars, cacheVars>>
notBreakoutVars == <<evalVars, batchVars, trendVars, vipVars, weeklyVars, formulaVars, gridVars, jobVars, normVars, ocfVars, detectVars, pointVars, cachedVars, cacheVars>>
notFormulaVars == <<evalVars, batchVars, trendVars, vipVars, weeklyVars, breakoutVars, gridVars, jobVars, normVars, ocfVars, detectVars, pointVars, cachedVars, cacheVars>>
notGridVars == <<evalVars, batchVars, trendVars, vipVars, weeklyVars, breakoutVars, formulaVars, jobVars, normVars, ocfVars, detectVars, pointVars, cachedVars, cacheVars>>
notJobVars == <<evalVars, batchVars, trendVars, vipVars, weeklyVars, breakoutVars, formulaVars, gridVars, normVars, ocfVars, detectVars, pointVars, cachedVars, cacheVars>>
notNormVars == <<evalVars, batchVars, trendVars, vipVars, weeklyVars, breakoutVars, formulaVars, gridVars, jobVars, ocfVars, detectVars, pointVars, cachedVars, cacheVars>>
notOcfVars == <<evalVars, batchVars, trendVars, vipVars, weeklyVars, breakoutVars, formulaVars, gridVars, jobVars, normVars, detectVars, pointVars, cachedVars, cacheVars>>
notDetectVars == <<evalVars, batchVars, trendVars, vipVars, weeklyVars, breakoutVars, formulaVars, gridVars, jobVars, normVars, ocfVars, pointVars, cachedVars, cacheVars>>
notPointVars == <<evalVars, batchVars, trendVars, vipVars, weeklyVars, breakoutVars, formulaVars, gridVars, jobVars, normVars, ocfVars, detectVars, cachedVars, cacheVars>>
notCachedVars == <<evalVars, batchVars, trendVars, vipVars, weeklyVars, breakoutVars, formulaVars, gridVars, jobVars, normVars, ocfVars, detectVars, pointVars, cacheVars>>
notCacheVars == <<evalVars, batchVars, trendVars, vipVars, weeklyVars, breakoutVars, formulaVars, gridVars, jobVars, normVars, ocfVars, detectVars, pointVars, cachedVars>>

(***************************************************************************)
(* Optional values and fractions                                           *)
(***************************************************************************)
None == <<>>
Some(v) == <<v>>
IsNone(x) == x = <<>>
Val(x) == x[1]

Frac(n, d) == [num |-> n, den |-> d]
FracLE(a, b) == a.num * b.den <= b.num * a.den
FracEq(a, b) == a.num * b.den = b.num * a.den
Whole(n) == Frac(n, 1)
Abs(n) == IF n < 0 THEN -n ELSE n
Max(a, b) == IF a >= b THEN a ELSE b

FirstN(s, n) == IF Len(s) <= n THEN s ELSE SubSeq(s, 1, n)
LastN(s, n) == IF Len(s) <= n THEN s ELSE SubSeq(s, Len(s) - n + 1, Len(s))

RECURSIVE SumSeq(_)
SumSeq(s) == IF s = <<>> THEN 0 ELSE Head(s) + SumSeq(Tail(s))

RECURSIVE SeqsUpTo(_, _)
SeqsUpTo(S, n) ==
    IF n = 0 THEN {<<>>}
    ELSE LET shorter == SeqsUpTo(S, n - 1)
         IN shorter \cup {Append(s, v) : s \in {t \in shorter : Len(t) = n - 1}, v \in S}

(***************************************************************************)
(* Program constants (src/config.py, literals of src/metrics.py and        *)
(* src/screens.py)                                                         *)
(***************************************************************************)
MULTIPLE_THRESHOLD == 14
MA_SHORT == 112
MA_LONG == 224
SIX_MONTH_TRADING_DAYS == 126
\* VIP_BELOW_RATIO = 2.0 / 3.0
VIP_BELOW_RATIO_NUM == 2
VIP_BELOW_RATIO_DEN == 3
\* SALES_SLOPE_EPS = 0.02 and SALES_R2_FLAT = 0.35, in hundredths
SALES_SLOPE_EPS_PCT == 2
SALES_R2_FLAT_PCT == 35
\* len(snapshot.ocf_q) < 4, snapshot.ocf_q[:4]
OCF_QUARTERS == 4
\* len(vals) <= 4, vals[:5]
TREND_POINTS == 5
\* float(signal.multiple) <= 10.0
STRONG_MULTIPLE == 10

\* rejection reasons and trend labels (the program's strings are Korean)
REASON_NO_DATA == "insufficient data"
REASON_NO_OCF == "insufficient OCF data"
REASON_OCF_NONPOS == "OCF<=0"
REASON_MULTIPLE_HIGH == "multiple>14"
REASON_FETCH_FAILED == "fetch failed"
TREND_UP == "UP"
TREND_DOWN == "DOWN"
TREND_FLAT == "FLAT"
TREND_UNKNOWN == "UNKNOWN"

(***************************************************************************)
(* src/metrics.py                                                          *)
(***************************************************************************)
\* np.nansum over the first 4 quarterly values; the values are finite
nansum(ocf) == SumSeq(ocf)

\* compute_multiple without the test on the number of quarters
compute_multiple_any_length(snap) ==
    IF IsNone(snap.market_cap) THEN [value |-> None, reason |-> REASON_NO_DATA]
    ELSE LET ocf_sum == nansum(FirstN(snap.ocf_q, OCF_QUARTERS))
         IN IF ocf_sum <= 0
            THEN [value |-> None, reason |-> REASON_OCF_NONPOS]
            ELSE [value |-> Some(Frac(Val(snap.market_cap), ocf_sum)), reason |-> ""]

\* compute_multiple testing the cash flow before the market cap
compute_multiple_ocf_first(snap) ==
    IF Len(snap.ocf_q) < OCF_QUARTERS THEN [value |-> None, reason |-> REASON_NO_OCF]
    ELSE LET ocf_sum == nansum(SubSeq(snap.ocf_q, 1, OCF_QUARTERS))
         IN IF ocf_sum <= 0
            THEN [value |-> None, reason |-> REASON_OCF_NONPOS]
            ELSE IF IsNone(snap.market_cap)
            THEN [value |-> None, reason |-> REASON_NO_DATA]
            ELSE [value |-> Some(Frac(Val(snap.market_cap), ocf_sum)), reason |-> ""]

compute_multiple(snap) ==
    IF IsNone(snap.market_cap) THEN [value |-> None, reason |-> REASON_NO_DATA]
    ELSE IF Len(snap.ocf_q) < OCF_QUARTERS THEN [value |-> None, reason |-> REASON_NO_OCF]
    ELSE LET ocf_sum == nansum(SubSeq(snap.ocf_q, 1, OCF_QUARTERS))
         IN IF ocf_sum <= 0
            THEN [value |-> None, reason |-> REASON_OCF_NONPOS]
            ELSE [value |-> Some(Frac(Val(snap.market_cap), ocf_sum)), reason |-> ""]

\* the entries of revenue_5y that are neither None nor NaN
ValidValues(revenue) == SelectSeq(revenue, LAMBDA v : ~IsNone(v))

\* classify_sales_trend without the near-zero slope test
classify_sales_trend_r2_only(revenue_5y) ==
    LET vals == ValidValues(revenue_5y)
    IN IF Len(vals) <= TREND_POINTS - 1 THEN TREND_UNKNOWN
       ELSE LET y == [k \in 1..TREND_POINTS |-> Val(vals[k])]
                sxy == SumSeq([k \in 1..TREND_POINTS |-> (k - 3) * y[k]])
                sumy == SumSeq(y)
                sumsq == SumSeq([k \in 1..TREND_POINTS |-> y[k] * y[k]])
                dy == TREND_POINTS * sumsq - sumy * sumy
                r2 == IF dy = 0 THEN Frac(0, 1) ELSE Frac(sxy * sxy, 2 * dy)
                r2_low == r2.num * 100 < SALES_R2_FLAT_PCT * r2.den
            IN IF r2_low THEN TREND_FLAT
               ELSE IF sxy > 0 THEN TREND_UP
               ELSE TREND_DOWN

\* Least squares on x = 0..4: with xc = x - 2, Sxx = 10 and
\* slope = Sxy / 10, R^2 = Sxy^2 / (Sxx * Syy), Syy = Dy / 5 where
\* Dy = 5 * sum(y^2) - sum(y)^2; mean(|y|) = sum(|y|) / 5.
classify_sales_trend(revenue_5y) ==
    LET vals == ValidValues(revenue_5y)
    IN IF Len(vals) <= TREND_POINTS - 1 THEN TREND_UNKNOWN
       ELSE LET y == [k \in 1..TREND_POINTS |-> Val(vals[k])]
                sxy == SumSeq([k \in 1..TREND_POINTS |-> (k - 3) * y[k]])
                sumy == SumSeq(y)
                sumsq == SumSeq([k \in 1..TREND_POINTS |-> y[k] * y[k]])
                sumabs == SumSeq([k \in 1..TREND_POINTS |-> Abs(y[k])])
                dy == TREND_POINTS * sumsq - sumy * sumy
                \* _r2_score: ss_tot = 0 gives 0.0
                r2 == IF dy = 0 THEN Frac(0, 1) ELSE Frac(sxy * sxy, 2 * dy)
                \* slope / max(mean(|y|), 1.0) = (sxy / 10) / (max(sumabs, 5) / 5)
                norm_slope == Frac(sxy, 2 * Max(sumabs, TREND_POINTS))
                r2_low == r2.num * 100 < SALES_R2_FLAT_PCT * r2.den
                slope_small == Abs(norm_slope.num) * 100 <= SALES_SLOPE_EPS_PCT * norm_slope.den
            IN IF r2_low \/ slope_small THEN TREND_FLAT
               ELSE IF norm_slope.num > 0 THEN TREND_UP
               ELSE TREND_DOWN

\* s[a] + ... + s[b], by halving
RECURSIVE SumRange(_, _, _)
SumRange(s, a, b) ==
    IF a > b THEN 0
    ELSE IF a = b THEN s[a]
    ELSE LET mid == (a + b) \div 2
         IN SumRange(s, a, mid) + SumRange(s, mid + 1, b)

\* w times the w-period moving average at position t (1-based), t >= w
WindowSum(s, w, t) == SumRange(s, t - w + 1, t)

\* Number of the positions a..b whose close is below the MA_LONG average
\* of the same day.  sum is MA_LONG times the previous day's average; each
\* day's window sum is the previous one plus the entering close minus the
\* leaving one.
RECURSIVE BelowLongSlide(_, _, _, _)
BelowLongSlide(s, a, b, sum) ==
    IF a > b THEN 0
    ELSE LET here == sum + s[a] - s[a - MA_LONG]
         IN (IF s[a] * MA_LONG < here THEN 1 ELSE 0) + BelowLongSlide(s, a + 1, b, here)

\* the same count, by halving down to runs of at most 64 days
RECURSIVE BelowLongCount(_, _, _)
BelowLongCount(s, a, b) ==
    IF b - a < 64 THEN BelowLongSlide(s, a, b, WindowSum(s, MA_LONG, a - 1))
    ELSE LET mid == (a + b) \div 2
         IN BelowLongCount(s, a, mid) + BelowLongCount(s, mid + 1, b)

\* evaluate_vip without the six-month ratio condition
evaluate_vip_no_ratio(price_series) ==
    LET n == Len(price_series)
    IN IF n < MA_LONG + SIX_MONTH_TRADING_DAYS THEN FALSE
       ELSE LET close_now == price_series[n]
                sum112 == WindowSum(price_series, MA_SHORT, n)
                sum224 == WindowSum(price_series, MA_LONG, n)
                cond1 == close_now * MA_LONG < sum224
                cond3 == sum112 * MA_LONG < sum224 * MA_SHORT
                cond4 == (close_now * MA_SHORT > sum112) /\ (close_now * MA_LONG < sum224)
            IN cond1 /\ cond3 /\ cond4

evaluate_vip(price_series) ==
    LET n == Len(price_series)
    IN IF n < MA_LONG + SIX_MONTH_TRADING_DAYS THEN FALSE
       ELSE LET close_now == price_series[n]
                sum112 == WindowSum(price_series, MA_SHORT, n)
                sum224 == WindowSum(price_series, MA_LONG, n)
                cond1 == close_now * MA_LONG < sum224
                cond3 == sum112 * MA_LONG < sum224 * MA_SHORT
                cond4 == (close_now * MA_SHORT > sum112) /\ (close_now * MA_LONG < sum224)
                first == n - SIX_MONTH_TRADING_DAYS + 1
                \* every day of the window has its MA224: first > MA_LONG
                valid == SIX_MONTH_TRADING_DAYS
                below == BelowLongCount(price_series, first, n)
                cond2 == below * VIP_BELOW_RATIO_DEN >= VIP_BELOW_RATIO_NUM * valid
            IN cond1 /\ cond2 /\ cond3 /\ cond4

is_recommended_of(multiple) ==
    ~IsNone(multiple) /\ FracLE(Val(multiple), Whole(MULTIPLE_THRESHOLD))

\* evaluate_snapshot recommending only what also passes the VIP condition
evaluate_snapshot_vip_gated(snap) ==
    LET res == compute_multiple(snap)
        trend == classify_sales_trend(snap.revenue_y)
        vip_pass == evaluate_vip(snap.price_series)
        is_recommended == is_recommended_of(res.value) /\ vip_pass
        reason == IF ~is_recommended /\ res.reason = ""
                  THEN REASON_MULTIPLE_HIGH ELSE res.reason
    IN [multiple |-> res.value,
        is_recommended |-> is_recommended,
        sales_trend |-> trend,
        vip_pass |-> vip_pass,
        rejection_reason |-> reason]

\* evaluate_snapshot overwriting the reason of every rejected snapshot
evaluate_snapshot_reason_overwritten(snap) ==
    LET res == compute_multiple(snap)
        trend == classify_sales_trend(snap.revenue_y)
        vip_pass == evaluate_vip(snap.price_series)
        is_recommended == is_recommended_of(res.value)
        reason == IF ~is_recommended THEN REASON_MULTIPLE_HIGH ELSE res.reason
    IN [multiple |-> res.value,
        is_recommended |-> is_recommended,
        sales_trend |-> trend,
        vip_pass |-> vip_pass,
        rejection_reason |-> reason]

evaluate_snapshot(snap) ==
    LET res == compute_multiple(snap)
        trend == classify_sales_trend(snap.revenue_y)
        vip_pass == evaluate_vip(snap.price_series)
        is_recommended == is_recommended_of(res.value)
        reason == IF ~is_recommended /\ res.reason = ""
                  THEN REASON_MULTIPLE_HIGH ELSE res.reason
    IN [multiple |-> res.value,
        is_recommended |-> is_recommended,
        sales_trend |-> trend,
        vip_pass |-> vip_pass,
        rejection_reason |-> reason]

(***************************************************************************)
(* src/market_data.py                                                      *)
(*                                                                         *)
(* A provider response is what yfinance (and, for Korea, the               *)
(* FinanceDataReader listing) answers for one symbol:                      *)
(*   kind = "ok"         the attributes of the ticker can be read          *)
(*   kind = "raises"     every attribute read and every call raises (the   *)
(*                       provider is down or times out)                    *)
(*   kind = "malformed"  ticker.info is a non-empty value that is no dict  *)
(***************************************************************************)
BlankResponse ==
    [kind |-> "ok",
     info_caps |-> <<None, None>>,
     fast_caps |-> <<None, None, None>>,
     info_shares |-> None, fast_shares |-> None, last_close |-> None,
     kr_marcap |-> None,
     quarterly_ocf |-> <<>>, info_ocf |-> None, annual_ocf |-> <<>>,
     financials_revenue |-> <<>>, income_revenue |-> <<>>, quarterly_revenue |-> <<>>,
     history_close |-> <<>>,
     sector |-> None, info_currency |-> None, fast_currency |-> None]

\* What the guarded reads (_safe_getattr, try/except) leave of a response:
\* a raising provider reads as empty info, no fast_info, empty statements
\* and no history; the listing of _kr_marcap_map is a separate source.
Readable(resp) ==
    IF resp.kind = "raises"
    THEN [BlankResponse EXCEPT !.kind = "raises", !.kr_marcap = resp.kr_marcap]
    ELSE resp

\* val and val > 0
Positive(x) == ~IsNone(x) /\ Val(x) > 0

RECURSIVE FirstPositive(_)
FirstPositive(candidates) ==
    IF candidates = <<>> THEN None
    ELSE IF Positive(Head(candidates)) THEN Head(candidates)
    ELSE FirstPositive(Tail(candidates))

extract_market_cap(resp, ctry) ==
    LET r == Readable(resp)
        first == FirstPositive(r.info_caps \o r.fast_caps)
        shares == IF IsNone(r.info_shares) THEN r.fast_shares ELSE r.info_shares
    IN IF ~IsNone(first) THEN first
       ELSE IF Positive(shares) /\ Positive(r.last_close)
            THEN Some(Val(r.last_close) * Val(shares))
       ELSE IF ctry = "KR_TOP200" /\ Positive(r.kr_marcap) THEN r.kr_marcap
       ELSE None

\* (ocf_q, ocf_ttm); ocf_ttm is a fraction
extract_ocf_data(resp) ==
    LET r == Readable(resp)
        ocf_q == FirstN(r.quarterly_ocf, OCF_QUARTERS)
        annual_vals == FirstN(r.annual_ocf, 1)
        ocf_ttm == IF ~IsNone(r.info_ocf) THEN Some(Whole(Val(r.info_ocf)))
                   ELSE IF annual_vals # <<>> THEN Some(Whole(annual_vals[1]))
                   ELSE IF Len(ocf_q) >= 2 THEN Some(Frac(SumSeq(ocf_q) * 4, Len(ocf_q)))
                   ELSE None
    IN [ocf_q |-> ocf_q, ocf_ttm |-> ocf_ttm]

\* quarterly revenue [year, value], oldest first, summed per calendar year
RECURSIVE GroupByYear(_)
GroupByYear(q) ==
    IF q = <<>> THEN <<>>
    ELSE LET year == Head(q).year
             same == SelectSeq(q, LAMBDA e : e.year = year)
             rest == SelectSeq(q, LAMBDA e : e.year # year)
         IN <<SumSeq([k \in 1..Len(same) |-> same[k].value])>> \o GroupByYear(rest)

extract_revenue_yearly(resp) ==
    LET r == Readable(resp)
        revenue == LastN(r.financials_revenue, TREND_POINTS)
        income == LastN(r.income_revenue, TREND_POINTS)
        yearly == LastN(GroupByYear(r.quarterly_revenue), TREND_POINTS)
        floats == IF revenue # <<>> THEN revenue
                  ELSE IF income # <<>> THEN income
                  ELSE yearly
    IN [k \in 1..Len(floats) |-> Some(floats[k])]

\* the body of the loop of fetch_snapshot, for a response whose info is a dict
fetch_one(resp, ctry) ==
    LET r == Readable(resp)
        ocf == extract_ocf_data(resp)
        currency == IF ~IsNone(r.info_currency) THEN r.info_currency ELSE r.fast_currency
    IN [market_cap |-> extract_market_cap(resp, ctry),
        ocf_q |-> ocf.ocf_q,
        ocf_ttm |-> ocf.ocf_ttm,
        revenue_y |-> extract_revenue_yearly(resp),
        price_series |-> r.history_close,
        sector |-> IF IsNone(r.sector) THEN "Unknown" ELSE Val(r.sector),
        currency |-> IF IsNone(currency) THEN "N/A" ELSE Val(currency)]

\* fetch_overview_batch for one symbol: any exception gives {}
fetch_overview(resp) ==
    IF resp.kind = "malformed"
    THEN [market_cap |-> None, currency |-> None, name |-> None]
    ELSE LET r == Readable(resp)
         IN [market_cap |-> extract_market_cap(resp, ""),
             currency |-> IF IsNone(r.info_currency) THEN Some("N/A") ELSE r.info_currency,
             name |-> None]

(***************************************************************************)
(* src/screens.py: build_recommendations, apply_filters,                   *)
(* build_single_ticker_result.  Symbols, names and keywords are tuples of  *)
(* one-character strings.                                                  *)
(***************************************************************************)
Lower(ch) ==
    CASE ch = "A" -> "a" [] ch = "B" -> "b" [] ch = "K" -> "k" [] OTHER -> ch
LowerStr(str) == [k \in 1..Len(str) |-> Lower(str[k])]

RECURSIVE Strip(_)
Strip(str) ==
    IF str = <<>> THEN str
    ELSE IF Head(str) = " " THEN Strip(Tail(str))
    ELSE IF str[Len(str)] = " " THEN Strip(SubSeq(str, 1, Len(str) - 1))
    ELSE str

\* needle in hay
Contains(hay, needle) ==
    \E k \in 0..(Len(hay) - Len(needle)) : SubSeq(hay, k + 1, k + Len(needle)) = needle

\* the strong flag without the test on the sales trend
strong_recommend_batch_any_trend(sig) ==
    /\ ~IsNone(sig.multiple)
    /\ FracLE(Val(sig.multiple), Whole(STRONG_MULTIPLE))

\* screens.py 173-177 (build_recommendations)
strong_recommend_batch(sig) ==
    /\ sig.sales_trend = TREND_UP
    /\ ~IsNone(sig.multiple)
    /\ FracLE(Val(sig.multiple), Whole(STRONG_MULTIPLE))

\* screens.py 123-127 (build_single_ticker_result)
strong_recommend_single(sig) ==
    /\ sig.sales_trend = TREND_UP
    /\ ~IsNone(sig.multiple)
    /\ FracLE(Val(sig.multiple), Whole(STRONG_MULTIPLE))

\* the row of a universe item that has no snapshot
FailedRow(ctry, item) ==
    [country |-> ctry, symbol |-> item.symbol, name |-> item.name,
     sector |-> IF item.sector = "" THEN "Unknown" ELSE item.sector,
     currency |-> IF item.currency = "" THEN "N/A" ELSE item.currency,
     market_cap |-> None, multiple |-> None,
     is_recommended |-> FALSE, strong_recommend |-> FALSE,
     sales_trend |-> TREND_UNKNOWN, vip_pass |-> FALSE,
     rejection_reason |-> REASON_FETCH_FAILED, asof_date |-> None]

SnapshotRow(ctry, item, snap) ==
    LET sig == evaluate_snapshot(snap)
    IN [country |-> ctry, symbol |-> item.symbol, name |-> item.name,
        sector |-> IF snap.sector = "" THEN item.sector ELSE snap.sector,
        currency |-> IF snap.currency = "" THEN item.currency ELSE snap.currency,
        market_cap |-> snap.market_cap, multiple |-> sig.multiple,
        is_recommended |-> sig.is_recommended,
        strong_recommend |-> strong_recommend_batch(sig),
        sales_trend |-> sig.sales_trend, vip_pass |-> sig.vip_pass,
        rejection_reason |-> sig.rejection_reason, asof_date |-> Some("now")]

\* the loop over the universe, snaps being the dict fetch_snapshot returned
BuildRows(ctry, items, snaps) ==
    [k \in 1..Len(items) |->
        IF items[k].symbol \in DOMAIN snaps
        THEN SnapshotRow(ctry, items[k], snaps[items[k].symbol])
        ELSE FailedRow(ctry, items[k])]

apply_filters(df, f) ==
    LET keyword == LowerStr(Strip(f.keyword))
        keep(row) ==
            /\ f.sectors = {} \/ row.sector \in f.sectors
            /\ \/ IsNone(f.multiple_min)
               \/ IsNone(row.multiple)
               \/ FracLE(Whole(Val(f.multiple_min)), Val(row.multiple))
            /\ \/ IsNone(f.multiple_max)
               \/ IsNone(row.multiple)
               \/ FracLE(Val(row.multiple), Whole(Val(f.multiple_max)))
            /\ f.vip_only => row.vip_pass
            /\ \/ keyword = <<>>
               \/ Contains(LowerStr(row.symbol), keyword)
               \/ Contains(LowerStr(row.name), keyword)
    IN SelectSeq(df, keep)

Flag(b) == IF b THEN 1 ELSE 0

\* the sort order with the market cap ascending
SortsBefore_cap_ascending(a, b) ==
    \/ Flag(a.strong_recommend) > Flag(b.strong_recommend)
    \/ /\ a.strong_recommend = b.strong_recommend
       /\ \/ Flag(a.is_recommended) > Flag(b.is_recommended)
          \/ /\ a.is_recommended = b.is_recommended
             /\ ~IsNone(a.market_cap)
             /\ IsNone(b.market_cap) \/ Val(a.market_cap) < Val(b.market_cap)

\* a sorts strictly before b under by = [_strong_sort, _rec_sort, market_cap],
\* all descending, missing market caps last
SortsBefore(a, b) ==
    \/ Flag(a.strong_recommend) > Flag(b.strong_recommend)
    \/ /\ a.strong_recommend = b.strong_recommend
       /\ \/ Flag(a.is_recommended) > Flag(b.is_recommended)
          \/ /\ a.is_recommended = b.is_recommended
             /\ ~IsNone(a.market_cap)
             /\ IsNone(b.market_cap) \/ Val(a.market_cap) > Val(b.market_cap)

\* row placed before the first row it sorts strictly before
RECURSIVE InsertRow(_, _)
InsertRow(sorted, row) ==
    IF sorted = <<>> THEN <<row>>
    ELSE IF SortsBefore(row, Head(sorted)) THEN <<row>> \o sorted
    ELSE <<Head(sorted)>> \o InsertRow(Tail(sorted), row)

\* DataFrame.sort_values on several keys: a stable sort
RECURSIVE sort_values(_)
sort_values(df) ==
    IF df = <<>> THEN <<>>
    ELSE InsertRow(sort_values(SubSeq(df, 1, Len(df) - 1)), df[Len(df)])

\* build_recommendations from the rows on: empty frame returned as is,
\* otherwise filtered, sorted and re-indexed
RankedTable(df, f) ==
    IF df = <<>> THEN df ELSE sort_values(apply_filters(df, f))

\* build_single_ticker_result once the symbol is normalised: snaps is the
\* dict of fetch_snapshot([symbol]), overview the entry of fetch_overview_batch
SingleTickerResult(symbol, snaps, overview) ==
    IF symbol \notin DOMAIN snaps
    THEN [symbol |-> symbol, name |-> symbol, multiple |-> None, vip_pass |-> FALSE,
          is_recommended |-> FALSE, strong_recommend |-> FALSE,
          sales_trend |-> TREND_UNKNOWN, rejection_reason |-> REASON_FETCH_FAILED,
          market_cap |-> None, currency |-> "N/A"]
    ELSE LET fetched == snaps[symbol]
             mcap == IF IsNone(fetched.market_cap) /\ ~IsNone(overview.market_cap)
                        /\ Val(overview.market_cap) # 0
                     THEN overview.market_cap ELSE fetched.market_cap
             currency == IF fetched.currency = "N/A" /\ ~IsNone(overview.currency)
                         THEN Val(overview.currency) ELSE fetched.currency
             snap == [fetched EXCEPT !.market_cap = mcap, !.currency = currency]
             sig == evaluate_snapshot(snap)
         IN [symbol |-> symbol, name |-> symbol, multiple |-> sig.multiple,
             vip_pass |-> sig.vip_pass, is_recommended |-> sig.is_recommended,
             strong_recommend |-> strong_recommend_single(sig),
             sales_trend |-> sig.sales_trend, rejection_reason |-> sig.rejection_reason,
             market_cap |-> snap.market_cap, currency |-> snap.currency]

(***************************************************************************)
(* src/target_price.py                                                     *)
(*                                                                         *)
(* A daily bar is [day, open, high, low, close, volume, trading_value],    *)
(* as _normalize_daily_history leaves it: every field present.  day counts *)
(* calendar days from a Saturday, so that day % 7 = 6 is a Friday and the  *)
(* "W-FRI" bin of a day (Saturday .. Friday, labelled by its Friday) is    *)
(* WeekEnd(day).  A weekly bar has the same fields with week_end for day,  *)
(* and ma52, an optional fraction.                                         *)
(***************************************************************************)
MA52_WINDOW == 52
DAYS_PER_WEEK == 7

WeekEnd(day) == day - (day % DAYS_PER_WEEK) + (DAYS_PER_WEEK - 1)

MinOf(S) == CHOOSE m \in S : \A o \in S : m <= o
MaxOf(S) == CHOOSE m \in S : \A o \in S : m >= o

\* the elements of a set of numbers, in ascending order
RECURSIVE Ascending(_)
Ascending(S) ==
    IF S = {} THEN <<>>
    ELSE LET m == MinOf(S) IN <<m>> \o Ascending(S \ {m})

\* the daily bars whose W-FRI bin is label, in order
RECURSIVE RowsOfWeek(_, _)
RowsOfWeek(daily, label) ==
    IF daily = <<>> THEN <<>>
    ELSE (IF WeekEnd(Head(daily).day) = label THEN <<Head(daily)>> ELSE <<>>)
            \o RowsOfWeek(Tail(daily), label)

\* one bin of daily.resample("W-FRI"): first / max / min / last / sum with
\* min_count=1, each NaN for a bin that holds no daily bar
ResampleBin(daily, label) ==
    LET group == RowsOfWeek(daily, label)
        n == Len(group)
    IN IF n = 0
       THEN [week_end |-> label, open |-> None, high |-> None, low |-> None,
             close |-> None, volume |-> None, trading_value |-> None]
       ELSE [week_end |-> label,
             open |-> Some(group[1].open),
             high |-> Some(MaxOf({group[k].high : k \in 1..n})),
             low |-> Some(MinOf({group[k].low : k \in 1..n})),
             close |-> Some(group[n].close),
             volume |-> Some(SumSeq([k \in 1..n |-> group[k].volume])),
             trading_value |-> Some(SumSeq([k \in 1..n |-> group[k].trading_value]))]

\* the bins from the week of the earliest day to the week of the latest
ResampleBins(daily) ==
    LET days == {daily[k].day : k \in 1..Len(daily)}
        first == WeekEnd(MinOf(days))
        last == WeekEnd(MaxOf(days))
        count == (last - first) \div DAYS_PER_WEEK + 1
    IN [b \in 1..count |-> ResampleBin(daily, first + DAYS_PER_WEEK * (b - 1))]

\* weekly.dropna(subset=["Open", "High", "Low", "Close"])
HasOHLC(row) ==
    ~IsNone(row.open) /\ ~IsNone(row.high) /\ ~IsNone(row.low) /\ ~IsNone(row.close)

RECURSIVE DropNa(_)
DropNa(frame) ==
    IF frame = <<>> THEN <<>>
    ELSE (IF HasOHLC(Head(frame)) THEN <<Head(frame)>> ELSE <<>>) \o DropNa(Tail(frame))

\* closes.rolling(window=52, min_periods=52).mean() at row i
RollingMean(closes, i) ==
    IF i < MA52_WINDOW THEN None
    ELSE Some(Frac(SumRange(closes, i - MA52_WINDOW + 1, i), MA52_WINDOW))

WithMA52(frame) ==
    LET closes == [k \in 1..Len(frame) |-> frame[k].close]
    IN [k \in 1..Len(frame) |->
            [week_end |-> frame[k].week_end, open |-> frame[k].open,
             high |-> frame[k].high, low |-> frame[k].low, close |-> frame[k].close,
             volume |-> frame[k].volume, trading_value |-> frame[k].trading_value,
             ma52 |-> RollingMean(closes, k)]]

\* the values of a row that came from a bin with a daily bar
Unwrap(row) ==
    [week_end |-> row.week_end, open |-> Val(row.open), high |-> Val(row.high),
     low |-> Val(row.low), close |-> Val(row.close),
     volume |-> Val(row.volume), trading_value |-> Val(row.trading_value)]

\* resample_daily_to_weekly that keeps the weeks without a daily bar,
\* filled with the previous close and no turnover
resample_daily_to_weekly_gaps_filled(daily) ==
    IF daily = <<>> THEN <<>>
    ELSE LET bins == ResampleBins(daily)
             RECURSIVE Fill(_, _)
             Fill(k, prev) ==
                IF k > Len(bins) THEN <<>>
                ELSE LET row == IF HasOHLC(bins[k]) THEN Unwrap(bins[k])
                                ELSE [prev EXCEPT !.week_end = bins[k].week_end,
                                                  !.volume = 0, !.trading_value = 0]
                     IN <<row>> \o Fill(k + 1, row)
         IN WithMA52(Fill(1, Unwrap(bins[1])))

resample_daily_to_weekly(daily) ==
    IF daily = <<>> THEN <<>>
    ELSE LET kept == DropNa(ResampleBins(daily))
         IN WithMA52([k \in 1..Len(kept) |-> Unwrap(kept[k])])

\* cross_up of find_latest_weekly_breakout at row i: close and MA52 of
\* row i and of row i - 1 all present (shift(1) is NaN at the first row),
\* close > MA52 at i and close <= MA52 at i - 1
CrossUp(weekly, i) ==
    /\ i > 1
    /\ ~IsNone(weekly[i].ma52)
    /\ ~IsNone(weekly[i - 1].ma52)
    /\ weekly[i].close * Val(weekly[i].ma52).den > Val(weekly[i].ma52).num
    /\ weekly[i - 1].close * Val(weekly[i - 1].ma52).den <= Val(weekly[i - 1].ma52).num

\* find_latest_weekly_breakout returning the first cross, index[cross_up][0]
find_latest_weekly_breakout_first(weekly) ==
    LET crosses == {i \in 1..Len(weekly) : CrossUp(weekly, i)}
    IN IF weekly = <<>> \/ crosses = {} THEN None
       ELSE Some(weekly[MinOf(crosses)].week_end)

find_latest_weekly_breakout(weekly) ==
    LET crosses == {i \in 1..Len(weekly) : CrossUp(weekly, i)}
    IN IF weekly = <<>> \/ crosses = {} THEN None
       ELSE Some(weekly[MaxOf(crosses)].week_end)

\* Exact arithmetic on fractions, kept in lowest terms with den > 0
RECURSIVE Gcd(_, _)
Gcd(a, b) == IF b = 0 THEN a ELSE Gcd(b, a % b)

FNorm(n, d) ==
    LET g == Gcd(Abs(n), Abs(d))
        sign == IF d < 0 THEN -1 ELSE 1
    IN Frac(sign * (n \div g), sign * (d \div g))

FAdd(a, b) == FNorm(a.num * b.den + b.num * a.den, a.den * b.den)
FSub(a, b) == FNorm(a.num * b.den - b.num * a.den, a.den * b.den)
FMul(a, b) == FNorm(a.num * b.num, a.den * b.den)
FDiv(a, b) == FNorm(a.num * b.den, a.den * b.num)
FLess(a, b) == a.num * b.den < b.num * a.den
FMin(a, b) == IF FLess(b, a) THEN b ELSE a
FMax(a, b) == IF FLess(a, b) THEN b ELSE a

\* _safe_float on a field of the base: None stays None, a number is a float
SafeFloat(x) == IF IsNone(x) THEN None ELSE Some(Whole(Val(x)))

FLOAT_RATE_LOW == Whole(1)
FLOAT_RATE_HIGH == Whole(100)
MULTIPLIER_LOW == Frac(1, 10)
MULTIPLIER_HIGH == Whole(5)
MULTIPLIER_DEFAULT == Whole(1)

ERROR_NO_BREAKOUT == "No weekly close breakout above MA52 was found."
ERROR_NO_MARKET_CAP == "Market cap is unavailable, so energy ratio cannot be calculated."
ERROR_NO_HISTORY == "Failed to fetch daily price history."

\* x or default: None and 0.0 are both falsy
OrDefault(x, default) ==
    IF IsNone(x) \/ Val(x).num = 0 THEN default ELSE Val(x)

\* max(1.0, min(100.0, _safe_float(float_rate_pct) or 100.0))
float_rate_of(float_rate_pct) ==
    FMax(FLOAT_RATE_LOW, FMin(FLOAT_RATE_HIGH, OrDefault(float_rate_pct, FLOAT_RATE_HIGH)))

\* max(0.1, min(5.0, _safe_float(multiplier) or 1.0))
weight_of(multiplier) ==
    FMax(MULTIPLIER_LOW, FMin(MULTIPLIER_HIGH, OrDefault(multiplier, MULTIPLIER_DEFAULT)))

\* result.get("error") is truthy
HasError(d) == ~IsNone(d.error) /\ Val(d.error) # ""

\* the error chosen with the market cap looked at before the breakout
formula_error_cap_first(d, floating_cap) ==
    IF IsNone(floating_cap) THEN Some(ERROR_NO_MARKET_CAP)
    ELSE IF IsNone(d.breakout_week_end) THEN Some(ERROR_NO_BREAKOUT)
    ELSE d.error

\* lines 191-194
formula_error(d, floating_cap) ==
    IF IsNone(d.breakout_week_end) THEN Some(ERROR_NO_BREAKOUT)
    ELSE IF IsNone(floating_cap) THEN Some(ERROR_NO_MARKET_CAP)
    ELSE d.error

\* the result dict: the fields of the base, the two parameters as given
\* and computed = <<floating_cap, energy_ratio, target_price, upside_pct>>
FormulaResult(base, float_rate_pct, multiplier, computed, error) ==
    [market_cap |-> base.market_cap, current_price |-> base.current_price,
     breakout_week_end |-> base.breakout_week_end,
     breakout_price |-> base.breakout_price,
     breakout_trading_value |-> base.breakout_trading_value,
     float_rate_pct |-> float_rate_pct, multiplier |-> multiplier,
     floating_cap |-> computed[1], energy_ratio |-> computed[2],
     target_price |-> computed[3], upside_pct |-> computed[4], error |-> error]

apply_target_price_formula(base, float_rate_pct, multiplier) ==
    IF HasError(base)
    THEN FormulaResult(base, float_rate_pct, multiplier, <<None, None, None, None>>, base.error)
    ELSE LET market_cap == SafeFloat(base.market_cap)
             breakout_price == SafeFloat(base.breakout_price)
             breakout_trading_value == SafeFloat(base.breakout_trading_value)
             current_price == SafeFloat(base.current_price)
             float_rate == float_rate_of(float_rate_pct)
             weight == weight_of(multiplier)
             floating_cap ==
                IF ~IsNone(market_cap) /\ Val(market_cap).num > 0
                THEN Some(FMul(Val(market_cap), FDiv(float_rate, Whole(100))))
                ELSE None
             energy_ratio ==
                IF ~IsNone(floating_cap) /\ Val(floating_cap).num > 0
                    /\ ~IsNone(breakout_trading_value)
                THEN Some(FDiv(Val(breakout_trading_value), Val(floating_cap)))
                ELSE None
             target_price ==
                IF ~IsNone(breakout_price) /\ ~IsNone(energy_ratio)
                THEN Some(FMul(Val(breakout_price),
                               FAdd(Whole(1), FMul(Val(energy_ratio), weight))))
                ELSE None
             upside_pct ==
                IF ~IsNone(target_price) /\ ~IsNone(current_price)
                    /\ Val(current_price).num > 0
                THEN Some(FMul(FSub(FDiv(Val(target_price), Val(current_price)), Whole(1)),
                               Whole(100)))
                ELSE None
         IN FormulaResult(base, float_rate_pct, multiplier,
                          <<floating_cap, energy_ratio, target_price, upside_pct>>,
                          formula_error(base, floating_cap))

(***************************************************************************)
(* src/jobs/optimize_target_price_defaults.py                              *)
(*                                                                         *)
(* An event is [breakout_date, breakout_price, breakout_trading_value,     *)
(* market_cap, future_max_high]; dates are day numbers.  Grid values are   *)
(* fractions.  valid_balanced_score = valid_hit * log1p(max(valid_up, 0))  *)
(* is kept as the fraction (1 + max(valid_up, 0)) ^ hits, hits the number  *)
(* of validation hits: that is exp(valid_events * score), and valid_events *)
(* is the same in every row, so the order of the scores is kept.           *)
(***************************************************************************)
\* df["validation"] with the cutoff date itself counted as training
IsValidation_after_cutoff(event, validation_start) ==
    event.breakout_date > validation_start

\* df["validation"] = df["breakout_date"] >= pd.Timestamp(validation_start)
IsValidation(event, validation_start) ==
    event.breakout_date >= validation_start

RECURSIVE FSum(_)
FSum(fs) == IF fs = <<>> THEN Whole(0) ELSE FAdd(Head(fs), FSum(Tail(fs)))

RECURSIVE FPow(_, _)
FPow(f, n) == IF n = 0 THEN Whole(1) ELSE FMul(f, FPow(f, n - 1))

\* the positions of the events for which mask holds, in order
MaskedPositions(events, mask) ==
    Ascending({k \in 1..Len(events) : mask[k]})

\* series[mask].mean() of a series of fractions
MaskedMean(series, positions) ==
    FDiv(FSum([j \in 1..Len(positions) |-> series[positions[j]]]), Whole(Len(positions)))

\* lines 165-175 for one event row: breakout_price * (1 + energy * mult)
\* with energy = (trading value / market cap) / (float_rate / 100)
GridTarget(event, float_rate, mult) ==
    LET base_ratio == FDiv(Whole(event.breakout_trading_value), Whole(event.market_cap))
        energy == FDiv(base_ratio, FDiv(float_rate, Whole(100)))
    IN FMul(Whole(event.breakout_price), FAdd(Whole(1), FMul(energy, mult)))

\* hit = df["future_max_high"] >= target
GridHit(event, float_rate, mult) ==
    FracLE(GridTarget(event, float_rate, mult), Whole(event.future_max_high))

\* one turn of the inner loop, lines 174-203: the record of a grid point,
\* or None when a partition is empty
GridRecord(events, validation_start, float_rate, mult) ==
    LET n == Len(events)
        float_factor == FDiv(float_rate, Whole(100))
        base_ratio == [k \in 1..n |->
            FDiv(Whole(events[k].breakout_trading_value), Whole(events[k].market_cap))]
        energy == [k \in 1..n |-> FDiv(base_ratio[k], float_factor)]
        target == [k \in 1..n |-> GridTarget(events[k], float_rate, mult)]
        hit == [k \in 1..n |->
            IF GridHit(events[k], float_rate, mult) THEN Whole(1) ELSE Whole(0)]
        target_upside == [k \in 1..n |->
            FMul(FSub(FDiv(target[k], Whole(events[k].breakout_price)), Whole(1)), Whole(100))]
        validation == [k \in 1..n |-> IsValidation(events[k], validation_start)]
        train == MaskedPositions(events, [k \in 1..n |-> ~validation[k]])
        valid == MaskedPositions(events, validation)
    IN IF Len(train) = 0 \/ Len(valid) = 0 THEN None
       ELSE LET valid_up == MaskedMean(target_upside, valid)
                hits == FSum([j \in 1..Len(valid) |-> hit[valid[j]]]).num
            IN Some([float_rate |-> float_rate,
                     multiplier |-> mult,
                     train_events |-> Len(train),
                     valid_events |-> Len(valid),
                     train_hit_rate |-> MaskedMean(hit, train),
                     valid_hit_rate |-> MaskedMean(hit, valid),
                     train_avg_target_upside_pct |-> MaskedMean(target_upside, train),
                     valid_avg_target_upside_pct |-> valid_up,
                     valid_balanced_score |->
                        FPow(FAdd(Whole(1), FMax(valid_up, Whole(0))), hits)])

\* the records in loop order: float rates outside, multipliers inside; a
\* float rate <= 0 is skipped
RECURSIVE GridRecords(_, _, _, _, _, _)
GridRecords(events, validation_start, float_rates, multipliers, i, j) ==
    IF i > Len(float_rates) THEN <<>>
    ELSE IF j > Len(multipliers) \/ float_rates[i].num <= 0
    THEN GridRecords(events, validation_start, float_rates, multipliers, i + 1, 1)
    ELSE LET rec == GridRecord(events, validation_start, float_rates[i], multipliers[j])
         IN (IF IsNone(rec) THEN <<>> ELSE <<Val(rec)>>)
                \o GridRecords(events, validation_start, float_rates, multipliers, i, j + 1)

\* the order with the score as the first key
GridSortsBefore_score_first(a, b) ==
    \/ FLess(b.valid_balanced_score, a.valid_balanced_score)
    \/ /\ FracEq(a.valid_balanced_score, b.valid_balanced_score)
       /\ \/ FLess(b.valid_hit_rate, a.valid_hit_rate)
          \/ /\ FracEq(a.valid_hit_rate, b.valid_hit_rate)
             /\ FLess(b.valid_avg_target_upside_pct, a.valid_avg_target_upside_pct)

\* sort_values(by=[valid_hit_rate, valid_balanced_score,
\* valid_avg_target_upside_pct], ascending=[False, False, False]): a comes
\* strictly before b
GridSortsBefore(a, b) ==
    \/ FLess(b.valid_hit_rate, a.valid_hit_rate)
    \/ /\ FracEq(a.valid_hit_rate, b.valid_hit_rate)
       /\ \/ FLess(b.valid_balanced_score, a.valid_balanced_score)
          \/ /\ FracEq(a.valid_balanced_score, b.valid_balanced_score)
             /\ FLess(b.valid_avg_target_upside_pct, a.valid_avg_target_upside_pct)

\* rec placed into a sorted table, after the records it does not precede
RECURSIVE GridInsert(_, _)
GridInsert(sorted, rec) ==
    IF sorted = <<>> THEN <<rec>>
    ELSE IF GridSortsBefore(rec, Head(sorted)) THEN <<rec>> \o sorted
    ELSE <<Head(sorted)>> \o GridInsert(Tail(sorted), rec)

RECURSIVE GridSort(_)
GridSort(records) ==
    IF records = <<>> THEN <<>>
    ELSE GridInsert(GridSort(SubSeq(records, 1, Len(records) - 1)), records[Len(records)])

evaluate_grid(events, float_rates, multipliers, validation_start) ==
    IF events = <<>> THEN <<>>
    ELSE GridSort(GridRecords(events, validation_start, float_rates, multipliers, 1, 1))

(***************************************************************************)
(* src/screens.py: normalize_ticker_input and the two alias resolvers.     *)
(* A ticker, a symbol and a name are tuples of one-character strings; the  *)
(* seed file and the universe are sequences of [symbol, name] rows.  A     *)
(* seed file that is missing or unreadable resolves nothing, like a file   *)
(* without rows.                                                           *)
(***************************************************************************)
LowerLetters ==
    <<"a", "b", "c", "d", "e", "f", "g", "h", "i", "j", "k", "l", "m",
      "n", "o", "p", "q", "r", "s", "t", "u", "v", "w", "x", "y", "z">>
UpperLetters ==
    <<"A", "B", "C", "D", "E", "F", "G", "H", "I", "J", "K", "L", "M",
      "N", "O", "P", "Q", "R", "S", "T", "U", "V", "W", "X", "Y", "Z">>
DecimalDigits == {"0", "1", "2", "3", "4", "5", "6", "7", "8", "9"}

Upper(ch) ==
    IF \E i \in 1..26 : LowerLetters[i] = ch
    THEN UpperLetters[CHOOSE i \in 1..26 : LowerLetters[i] = ch]
    ELSE ch
UpperStr(str) == [k \in 1..Len(str) |-> Upper(str[k])]

IsDigit(ch) == ch \in DecimalDigits
IsAlnum(ch) ==
    \/ ch \in DecimalDigits
    \/ \E i \in 1..26 : ch = LowerLetters[i] \/ ch = UpperLetters[i]

\* the key with the case folded only
norm_token_keep_punctuation(text) == UpperStr(text)

\* _norm_token: "".join(ch for ch in text.upper() if ch.isalnum())
norm_token(text) == SelectSeq(UpperStr(text), IsAlnum)

EndsWith(str, suffix) ==
    /\ Len(str) >= Len(suffix)
    /\ SubSeq(str, Len(str) - Len(suffix) + 1, Len(str)) = suffix

\* sym.split(".")[0]
RECURSIVE SplitBase(_)
SplitBase(sym) ==
    IF sym = <<>> \/ Head(sym) = "." THEN <<>>
    ELSE <<Head(sym)>> \o SplitBase(Tail(sym))

\* str.replace(".", "-")
DotsToDashes(str) == [k \in 1..Len(str) |-> IF str[k] = "." THEN "-" ELSE str[k]]

\* digits.zfill(6)
RECURSIVE ZFill(_, _)
ZFill(digits, width) ==
    IF Len(digits) >= width THEN digits ELSE ZFill(<<"0">> \o digits, width)

\* the loop of _resolve_alias_by_seed over the rows from position i on
RECURSIVE SeedLookup(_, _, _, _)
SeedLookup(seed_rows, key, ticker, i) ==
    IF i > Len(seed_rows) THEN ticker
    ELSE LET sym == UpperStr(Strip(seed_rows[i].symbol))
             name == Strip(seed_rows[i].name)
         IN IF sym = <<>> THEN SeedLookup(seed_rows, key, ticker, i + 1)
            ELSE IF key \in {norm_token(sym), norm_token(SplitBase(sym)), norm_token(name)}
            THEN sym
            ELSE IF Contains(norm_token(name), key) THEN sym
            ELSE SeedLookup(seed_rows, key, ticker, i + 1)

resolve_alias_by_seed(seed_rows, ticker) ==
    LET key == norm_token(ticker)
    IN IF key = <<>> THEN ticker ELSE SeedLookup(seed_rows, key, ticker, 1)

\* the loop of _resolve_alias_by_universe over the items from position i on
RECURSIVE UniverseLookup(_, _, _, _)
UniverseLookup(items, key, ticker, i) ==
    IF i > Len(items) THEN ticker
    ELSE LET sym == UpperStr(items[i].symbol)
             name == norm_token(items[i].name)
         IN IF key = norm_token(sym) \/ key = norm_token(SplitBase(sym)) \/ key = name
            THEN sym
            ELSE IF Contains(name, key) THEN sym
            ELSE UniverseLookup(items, key, ticker, i + 1)

resolve_alias_by_universe(items, ticker) ==
    LET key == norm_token(ticker)
    IN IF key = <<>> THEN ticker ELSE UniverseLookup(items, key, ticker, 1)

\* normalize_ticker_input with the seed file of the country and the
\* universe get_top_universe returns for it
RECURSIVE normalize_ticker_input(_, _, _, _)
normalize_ticker_input(market, seed_rows, items, ticker_input) ==
    LET ticker == UpperStr(Strip(ticker_input))
        seeded == resolve_alias_by_seed(seed_rows, ticker)
        digits == SelectSeq(ticker, IsDigit)
    IN IF ticker = <<>> THEN <<>>
       ELSE IF market = "KR_TOP200"
       THEN IF EndsWith(ticker, <<".", "K", "S">>) THEN ticker
            ELSE IF digits # <<>> /\ Len(digits) <= 6
            THEN ZFill(digits, 6) \o <<".", "K", "S">>
            ELSE IF seeded # ticker
            THEN normalize_ticker_input(market, seed_rows, items, seeded)
            ELSE resolve_alias_by_universe(items, ticker)
       ELSE IF market = "JP_TOP200"
       THEN IF \A k \in 1..Len(ticker) : IsDigit(ticker[k]) THEN ticker \o <<".", "T">>
            ELSE IF seeded # ticker THEN seeded
            ELSE resolve_alias_by_universe(items, ticker)
       ELSE IF market = "US_TOP500"
       THEN IF seeded # ticker THEN DotsToDashes(seeded)
            ELSE IF \E k \in 1..Len(ticker) : ticker[k] = "." THEN DotsToDashes(ticker)
            ELSE resolve_alias_by_universe(items, ticker)
       ELSE IF market = "EU_TOP200"
       THEN IF \E k \in 1..Len(ticker) : ticker[k] = "." THEN ticker
            ELSE IF seeded # ticker THEN seeded
            ELSE resolve_alias_by_universe(items, ticker)
       \* a market without an entry in COUNTRY_LIMITS: the KeyError is caught
       ELSE ticker

(***************************************************************************)
(* src/jobs/optimize_target_price_defaults.py: _detect_breakout_rows.  A   *)
(* weekly row is [week_end, close, ma52, high, trading_value]; ma52 and    *)
(* high are optional (NaN), close and trading_value are numbers.           *)
(***************************************************************************)
Min(a, b) == IF a <= b THEN a ELSE b

\* dropna(subset=[Close, MA52, High, TradingValue])
DetectWork(weekly) ==
    SelectSeq(weekly, LAMBDA row : ~IsNone(row.ma52) /\ ~IsNone(row.high))

\* cross_up at row i of work, lines 46-51: shift(1) is NaN at the first row
DetectCrossUp(work, i) ==
    /\ work[i].close * Val(work[i].ma52).den > Val(work[i].ma52).num
    /\ i > 1
    /\ work[i - 1].close * Val(work[i - 1].ma52).den <= Val(work[i - 1].ma52).num

\* the window iloc[i : end + 1], the breakout bar included
FutureWindow_with_breakout_bar(work, i, horizon_weeks) ==
    i..Min(i + horizon_weeks, Len(work))

\* the rows of iloc[i + 1 : end + 1] with end = min(i + horizon_weeks,
\* len(work) - 1), as positions counted from 1
FutureWindow(work, i, horizon_weeks) ==
    (i + 1)..Min(i + horizon_weeks, Len(work))

\* the loop of lines 56-79 from row i on
RECURSIVE DetectLoop(_, _, _, _)
DetectLoop(work, market_cap, horizon_weeks, i) ==
    IF i > Len(work) THEN <<>>
    ELSE LET window == FutureWindow(work, i, horizon_weeks)
             skip == \/ ~DetectCrossUp(work, i)
                     \/ Min(i + horizon_weeks, Len(work)) <= i
                     \/ work[i].close <= 0
                     \/ work[i].trading_value <= 0
             event == [breakout_date |-> work[i].week_end,
                       breakout_price |-> work[i].close,
                       breakout_trading_value |-> work[i].trading_value,
                       market_cap |-> market_cap,
                       future_max_high |-> MaxOf({Val(work[m].high) : m \in window})]
         IN (IF skip THEN <<>> ELSE <<event>>)
                \o DetectLoop(work, market_cap, horizon_weeks, i + 1)

detect_breakout_rows(weekly, market_cap, horizon_weeks) ==
    IF weekly = <<>> \/ market_cap <= 0 THEN <<>>
    ELSE DetectLoop(DetectWork(weekly), market_cap, horizon_weeks, 1)

(***************************************************************************)
(* apply_target_price_formula and the dict it is given.  A call leaves two *)
(* objects: the base dict of the caller and the result dict.               *)
(***************************************************************************)
\* result = base: the writes of lines 153-194 go to the caller's dict
apply_call_in_place(base, float_rate_pct, multiplier) ==
    LET result == apply_target_price_formula(base, float_rate_pct, multiplier)
    IN [base |-> result, result |-> result]

\* result = dict(base), line 152: the writes go to the copy
apply_call(base, float_rate_pct, multiplier) ==
    [base |-> base, result |-> apply_target_price_formula(base, float_rate_pct, multiplier)]

(***************************************************************************)
(* src/cache_store.py, _load_or_build of app.py and main of                *)
(* src/jobs/daily_refresh.py.  A frame is the tuple of its rows; the meta  *)
(* file maps a key (a country or "updated_at_utc") to a timestamp, None    *)
(* for a key it does not hold; a timestamp is the reading of the clock.    *)
(***************************************************************************)
CacheCountries == <<"KR_TOP200", "US_TOP500">>
MetaKeys == {CacheCountries[i] : i \in 1..Len(CacheCountries)} \cup {"updated_at_utc"}

\* load_meta: {} when the file does not exist
EmptyMeta == [k \in MetaKeys |-> None]

\* meta.update(updates); meta["updated_at_utc"] = now -- the dict that
\* save_meta writes, from the meta it loaded
updated_meta(loaded, updates, now) ==
    [k \in MetaKeys |->
        IF k = "updated_at_utc" THEN Some(now)
        ELSE IF updates[k] # None THEN updates[k]
        ELSE loaded[k]]

\* if not fresh.empty
should_save(fresh) == fresh # <<>>

\* the cached frame is served: not None, not empty (the frames this
\* version saves all have the column strong_recommend)
cache_usable(cached) == cached # None /\ cached[1] # <<>>

(***************************************************************************)
(* Direct calls of compute_multiple / evaluate_snapshot on a snapshot built *)
(* by the caller (tests/test_metrics.py builds FundamentalSnapshot values   *)
(* this way)                                                                *)
(***************************************************************************)
MaxCap == 30
MaxOcf == 1

CapInputs == {None} \cup {Some(c) : c \in -1..MaxCap}
OcfInputs == SeqsUpTo({-MaxOcf, MaxOcf}, OCF_QUARTERS)
TtmInputs == {None} \cup {Some(Whole(v)) : v \in {-MaxOcf, 0, MaxOcf}}

\* yearly revenue, oldest first: the lists of tests/test_metrics.py
RevenueInputs ==
    { <<Some(100), Some(110), Some(130), Some(160), Some(200)>>,
      <<Some(200), Some(180), Some(160), Some(150), Some(130)>>,
      <<Some(100), Some(101), None, Some(102), Some(103)>> }

\* MA_LONG + SIX_MONTH_TRADING_DAYS closes: high for nHigh days, then low,
\* and a last close between the two averages
StepSeries(nHigh, high, low, last) ==
    [k \in 1..(MA_LONG + SIX_MONTH_TRADING_DAYS) |->
        IF k <= nHigh THEN high
        ELSE IF k < MA_LONG + SIX_MONTH_TRADING_DAYS THEN low ELSE last]

VipSeries == StepSeries(200, 300, 100, 120)

PriceInputs == {<<>>, VipSeries}

SnapshotInputs ==
    [market_cap : CapInputs, ocf_q : OcfInputs, ocf_ttm : TtmInputs,
     revenue_y : RevenueInputs, price_series : PriceInputs,
     sector : {"Tech"}, currency : {"USD"}]

NoMultiple == [value |-> None, reason |-> ""]
NoSignal ==
    [multiple |-> None, is_recommended |-> FALSE, sales_trend |-> TREND_UNKNOWN,
     vip_pass |-> FALSE, rejection_reason |-> ""]
NoFilters ==
    [sectors |-> {}, multiple_min |-> None, multiple_max |-> None,
     vip_only |-> FALSE, keyword |-> <<>>]

BatchIdle ==
    /\ country = "US_TOP500"
    /\ universe = <<>>
    /\ provider = <<>>
    /\ snapshots = <<>>
    /\ rows = <<>>
    /\ filters = NoFilters
    /\ table = <<>>
    /\ single = None
    /\ pc = "idle"

EvalIdle ==
    /\ cm = NoMultiple
    /\ signal = NoSignal
    /\ evalPc = "input"

TrendIdle ==
    /\ trendIn = <<>>
    /\ trendOut = TREND_UNKNOWN
    /\ trendPc = "idle"

VipIdle ==
    /\ vipIn = <<>>
    /\ vipOut = FALSE
    /\ vipPc = "idle"

WeeklyIdle ==
    /\ dailyIn = <<>>
    /\ weeklyOut = <<>>
    /\ weeklyPc = "idle"

BreakoutIdle ==
    /\ frameIn = <<>>
    /\ breakoutOut = None
    /\ breakoutPc = "idle"

FormulaIdle ==
    /\ baseIn = <<>>
    /\ rateIn = None
    /\ multIn = None
    /\ formulaOut = <<>>
    /\ formulaPc = "idle"

GridIdle ==
    /\ eventsIn = <<>>
    /\ ratesIn = <<>>
    /\ multsIn = <<>>
    /\ cutoffIn = 0
    /\ gridOut = <<>>
    /\ bestOut = None
    /\ gridPc = "idle"

JobIdle ==
    /\ jobArgs = <<>>
    /\ jobEvents = <<>>
    /\ jobTable = <<>>
    /\ jobBest = None
    /\ jobWritten = {}
    /\ jobExit = None
    /\ jobPc = "idle"

NormIdle ==
    /\ normMarket = ""
    /\ seedIn = <<>>
    /\ universeIn = <<>>
    /\ tickerIn = <<>>
    /\ normOut = <<>>
    /\ normAgain = <<>>
    /\ normPc = "idle"

OcfIdle ==
    /\ ocfIn = <<>>
    /\ ocfOut = <<>>
    /\ ocfPc = "idle"

DetectIdle ==
    /\ detIn = <<>>
    /\ detCap = 0
    /\ detHorizon = 0
    /\ detOut = <<>>
    /\ detLatest = None
    /\ detPc = "idle"

PointIdle ==
    /\ pointEvent = <<>>
    /\ pointRate = Whole(0)
    /\ pointMult = Whole(0)
    /\ pointGrid = None
    /\ pointFormula = <<>>
    /\ pointPc = "idle"

CachedIdle ==
    /\ builtBase = <<>>
    /\ heldBase = <<>>
    /\ callLog = <<>>

CacheIdle ==
    /\ diskFrames = <<>>
    /\ metaFile = <<>>
    /\ clock = 0
    /\ sessions = <<>>
    /\ refreshJob = <<>>

InitEval ==
    /\ snapshot \in SnapshotInputs
    /\ EvalIdle
    /\ BatchIdle
    /\ TrendIdle /\ VipIdle /\ WeeklyIdle /\ BreakoutIdle /\ FormulaIdle /\ GridIdle
    /\ JobIdle
    /\ NormIdle
    /\ OcfIdle
    /\ DetectIdle
    /\ PointIdle
    /\ CachedIdle
    /\ CacheIdle

CallComputeMultiple ==
    /\ evalPc = "input"
    /\ cm' = compute_multiple(snapshot)
    /\ evalPc' = "multiple"
    /\ UNCHANGED <<snapshot, signal>>

CallEvaluateSnapshot ==
    /\ evalPc = "input"
    /\ signal' = evaluate_snapshot(snapshot)
    /\ evalPc' = "signal"
    /\ UNCHANGED <<snapshot, cm>>

NextEval ==
    \/ CallComputeMultiple /\ UNCHANGED notEvalVars
    \/ CallEvaluateSnapshot /\ UNCHANGED notEvalVars

SpecEval == InitEval /\ [][NextEval]_vars

(***************************************************************************)
(* A session: build_recommendations over the universe of a country, or a   *)
(* single-ticker lookup.  The universe listing and the provider are        *)
(* external; their answers are drawn from the sets below.                  *)
(***************************************************************************)
MaxUniverse == 3

Countries == {"KR_TOP200", "US_TOP500"}

DigitChars == <<"1", "2", "3", "4", "5", "6", "7", "8", "9">>

\* the k-th record get_top_universe returns: sector is always "Unknown",
\* the currency "KRW" on the Korean listing path and "N/A" otherwise
Item(ctry, k) ==
    [symbol |-> <<"K", DigitChars[k]>>,
     name |-> IF k % 2 = 1 THEN <<"A", "b">> ELSE <<"B">>,
     sector |-> "Unknown",
     currency |-> IF ctry = "KR_TOP200" THEN "KRW" ELSE "N/A"]

UniverseInputs(ctry) == {[k \in 1..n |-> Item(ctry, k)] : n \in 0..MaxUniverse}

RevenueUp == <<100, 110, 130, 160, 200>>

OkResponse(cap, ocf) ==
    [BlankResponse EXCEPT !.info_caps = <<None, cap>>, !.quarterly_ocf = ocf,
                          !.financials_revenue = RevenueUp,
                          !.sector = Some("Tech"), !.info_currency = Some("USD")]

\* market cap from shares * close, four revenue years only
ShortRevenueResponse ==
    [BlankResponse EXCEPT !.info_caps = <<Some(0), None>>, !.fast_shares = Some(2),
                          !.last_close = Some(20), !.quarterly_ocf = <<1, 1, 1, 1>>,
                          !.info_ocf = Some(3),
                          !.income_revenue = <<100, 110, 130, 160>>]

\* market cap from fast_info, revenue from quarterly statements, a price
\* history that passes the VIP condition
VipResponse ==
    [BlankResponse EXCEPT !.fast_caps = <<None, Some(-1), Some(50)>>,
                          !.quarterly_ocf = <<2, 1, 1, 1, 7>>, !.annual_ocf = <<6>>,
                          !.quarterly_revenue =
                              << [year |-> 1, value |-> 100], [year |-> 2, value |-> 50],
                                 [year |-> 2, value |-> 60], [year |-> 3, value |-> 130],
                                 [year |-> 4, value |-> 160], [year |-> 5, value |-> 200] >>,
                          !.history_close = VipSeries,
                          !.fast_currency = Some("EUR")]

RaisingResponse == [BlankResponse EXCEPT !.kind = "raises", !.kr_marcap = Some(60)]

MalformedResponse == [BlankResponse EXCEPT !.kind = "malformed"]

ProviderResponses ==
    {OkResponse(cap, ocf) : cap \in {None, Some(40), Some(60)},
                            ocf \in {<<1, 1, 1, 1>>, <<2, 1, 1, 1>>}}
    \cup {ShortRevenueResponse, VipResponse, RaisingResponse, MalformedResponse}

OverviewResponses == {VipResponse, RaisingResponse, MalformedResponse}

FilterInputs ==
    { NoFilters,
      [NoFilters EXCEPT !.sectors = {"Tech"}],
      [NoFilters EXCEPT !.multiple_min = Some(9), !.multiple_max = Some(12)],
      [NoFilters EXCEPT !.vip_only = TRUE],
      [NoFilters EXCEPT !.keyword = <<" ", "A">>] }

\* what normalize_ticker_input may return: "" or a symbol
SymbolInputs(ctry) == {<<>>} \cup {Item(ctry, k).symbol : k \in 1..MaxUniverse}

IdleSnapshot ==
    [market_cap |-> None, ocf_q |-> <<>>, ocf_ttm |-> None, revenue_y |-> <<>>,
     price_series |-> <<>>, sector |-> "Unknown", currency |-> "N/A"]

Init ==
    /\ snapshot = IdleSnapshot
    /\ EvalIdle
    /\ country \in Countries
    /\ universe = <<>>
    /\ provider = <<>>
    /\ snapshots = <<>>
    /\ rows = <<>>
    /\ filters = NoFilters
    /\ table = <<>>
    /\ single = None
    /\ pc = "start"
    /\ TrendIdle /\ VipIdle /\ WeeklyIdle /\ BreakoutIdle /\ FormulaIdle /\ GridIdle
    /\ JobIdle
    /\ NormIdle
    /\ OcfIdle
    /\ DetectIdle
    /\ PointIdle
    /\ CachedIdle
    /\ CacheIdle

\* build_recommendations, lines 143-147
StartBuild ==
    /\ pc = "start"
    /\ universe' \in UniverseInputs(country)
    /\ pc' = "fetch"
    /\ UNCHANGED <<country, provider, snapshots, rows, filters, table, single>>

\* fetch_snapshot, one turn of its loop
FetchSnapshot ==
    /\ pc = "fetch"
    /\ Len(provider) < Len(universe)
    /\ \E resp \in ProviderResponses :
        /\ resp.kind # "malformed"
        /\ provider' = Append(provider, resp)
        /\ snapshots' = (universe[Len(provider) + 1].symbol :> fetch_one(resp, country))
                            @@ snapshots
    /\ UNCHANGED <<country, universe, rows, filters, table, single, pc>>

\* info.get on a value that is no dict raises out of fetch_snapshot and out
\* of its caller
FetchRaises ==
    /\ pc = "fetch"
    /\ Len(provider) < Len(universe)
    /\ provider' = Append(provider, MalformedResponse)
    /\ snapshots' = <<>>
    /\ pc' = "raised"
    /\ UNCHANGED <<country, universe, rows, filters, table, single>>

\* build_recommendations, lines 150-194: the rows, once every symbol is fetched
BuildRowsStep ==
    /\ pc = "fetch"
    /\ Len(provider) = Len(universe)
    /\ rows' = BuildRows(country, universe, snapshots)
    /\ snapshots' = <<>>
    /\ pc' = "rows"
    /\ UNCHANGED <<country, universe, provider, filters, table, single>>

\* build_recommendations, lines 196-208; filters is the argument of the
\* call, which is not read before this point
RankTable ==
    /\ pc = "rows"
    /\ \E f \in FilterInputs :
        /\ filters' = f
        /\ table' = RankedTable(rows, f)
    /\ rows' = <<>>
    /\ pc' = "done"
    /\ UNCHANGED <<country, universe, provider, snapshots, single>>

\* build_single_ticker_result
LookupSingleTicker ==
    /\ pc = "start"
    /\ \E symbol \in SymbolInputs(country), resp \in ProviderResponses,
          ov \in OverviewResponses :
        IF symbol = <<>>
        THEN /\ single' = None
             /\ pc' = "single"
             /\ UNCHANGED provider
        ELSE IF resp.kind = "malformed"
        THEN /\ provider' = <<resp>>
             /\ pc' = "raised"
             /\ UNCHANGED single
        ELSE /\ provider' = <<resp, ov>>
             /\ single' = Some(SingleTickerResult(symbol,
                                    symbol :> fetch_one(resp, country),
                                    fetch_overview(ov)))
             /\ pc' = "single"
    /\ UNCHANGED <<country, universe, snapshots, rows, filters, table>>

Next ==
    \/ StartBuild /\ UNCHANGED notBatchVars
    \/ FetchSnapshot /\ UNCHANGED notBatchVars
    \/ FetchRaises /\ UNCHANGED notBatchVars
    \/ BuildRowsStep /\ UNCHANGED notBatchVars
    \/ RankTable /\ UNCHANGED notBatchVars
    \/ LookupSingleTicker /\ UNCHANGED notBatchVars

Spec == Init /\ [][Next]_vars

(***************************************************************************)
(* Direct calls of classify_sales_trend on a revenue list                  *)
(***************************************************************************)
MaxRev == 1

\* small revenues of either sign, two large ones next to each other, and
\* missing entries
TrendValues ==
    {None} \cup {Some(v) : v \in -1..MaxRev} \cup {Some(20 + v) : v \in 0..1}

TrendInputs == SeqsUpTo(TrendValues, TREND_POINTS + 1) \cup RevenueInputs

InitTrend ==
    /\ trendIn \in TrendInputs
    /\ trendOut = TREND_UNKNOWN
    /\ trendPc = "input"
    /\ snapshot = IdleSnapshot
    /\ EvalIdle /\ BatchIdle
    /\ VipIdle /\ WeeklyIdle /\ BreakoutIdle /\ FormulaIdle /\ GridIdle
    /\ JobIdle
    /\ NormIdle
    /\ OcfIdle
    /\ DetectIdle
    /\ PointIdle
    /\ CachedIdle
    /\ CacheIdle

CallClassifySalesTrend ==
    /\ trendPc = "input"
    /\ trendOut' = classify_sales_trend(trendIn)
    /\ trendPc' = "done"
    /\ UNCHANGED trendIn

NextTrend == CallClassifySalesTrend /\ UNCHANGED notTrendVars

SpecTrend == InitTrend /\ [][NextTrend]_vars

(***************************************************************************)
(* Direct calls of evaluate_vip on a close series                          *)
(***************************************************************************)
MaxExtraDays == 1
MaxVipShift == 4

\* n closes: 300 for the first nHigh days, 100 afterwards, and a last close
PriceSeriesOf(n, nHigh, last) ==
    [k \in 1..n |-> IF k = n THEN last ELSE IF k <= nHigh THEN 300 ELSE 100]

VipLengths ==
    (MA_LONG + SIX_MONTH_TRADING_DAYS - 1) .. (MA_LONG + SIX_MONTH_TRADING_DAYS + MaxExtraDays)

\* the fall from 300 to 100 lies around 84 days (2/3 of 126) before the end
VipInputs ==
    {<<>>} \cup
    UNION {{PriceSeriesOf(n, nHigh, last) :
                nHigh \in {0, 200} \cup {n - 86 + k : k \in 0..MaxVipShift},
                last \in {100, 120, 200, 230}} : n \in VipLengths}

InitVip ==
    /\ vipIn \in VipInputs
    /\ vipOut = FALSE
    /\ vipPc = "input"
    /\ snapshot = IdleSnapshot
    /\ EvalIdle /\ BatchIdle
    /\ TrendIdle /\ WeeklyIdle /\ BreakoutIdle /\ FormulaIdle /\ GridIdle
    /\ JobIdle
    /\ NormIdle
    /\ OcfIdle
    /\ DetectIdle
    /\ PointIdle
    /\ CachedIdle
    /\ CacheIdle

CallEvaluateVip ==
    /\ vipPc = "input"
    /\ vipOut' = evaluate_vip(vipIn)
    /\ vipPc' = "done"
    /\ UNCHANGED vipIn

NextVip == CallEvaluateVip /\ UNCHANGED notVipVars

SpecVip == InitVip /\ [][NextVip]_vars

(***************************************************************************)
(* Direct calls of resample_daily_to_weekly on a daily history             *)
(***************************************************************************)
MaxBars == 3

\* the bar of tests/test_target_price.py for close = 11
DailyBar(day, close) ==
    [day |-> day, open |-> close - 1, high |-> close + 1, low |-> close - 2,
     close |-> close, volume |-> 100, trading_value |-> 100 * close]

\* Saturday, Monday and Friday of as many weeks as there may be bars
TradingDays == {d \in 0..(DAYS_PER_WEEK * MaxBars - 1) : d % DAYS_PER_WEEK \in {0, 2, 6}}

\* the history with a bar on each day of S, closing at closeOf[day]
DailyHistory(S, closeOf) ==
    LET days == Ascending(S)
    IN [k \in 1..Len(days) |-> DailyBar(days[k], closeOf[days[k]])]

\* 5 business days in each of 2 weeks, every bar the same
TestDaily ==
    DailyHistory({2, 3, 4, 5, 6, 9, 10, 11, 12, 13}, [d \in 0..13 |-> 11])

DailyInputs ==
    {TestDaily} \cup
    UNION {{DailyHistory(S, closeOf) : closeOf \in [S -> {10, 11}]} :
              S \in {T \in SUBSET TradingDays : Cardinality(T) <= MaxBars}}

InitWeekly ==
    /\ dailyIn \in DailyInputs
    /\ weeklyOut = <<>>
    /\ weeklyPc = "input"
    /\ snapshot = IdleSnapshot
    /\ EvalIdle /\ BatchIdle
    /\ TrendIdle /\ VipIdle /\ BreakoutIdle /\ FormulaIdle /\ GridIdle
    /\ JobIdle
    /\ NormIdle
    /\ OcfIdle
    /\ DetectIdle
    /\ PointIdle
    /\ CachedIdle
    /\ CacheIdle

CallResampleDailyToWeekly ==
    /\ weeklyPc = "input"
    /\ weeklyOut' = resample_daily_to_weekly(dailyIn)
    /\ weeklyPc' = "done"
    /\ UNCHANGED dailyIn

NextWeekly == CallResampleDailyToWeekly /\ UNCHANGED notWeeklyVars

SpecWeekly == InitWeekly /\ [][NextWeekly]_vars

(***************************************************************************)
(* Direct calls of find_latest_weekly_breakout on a weekly frame           *)
(***************************************************************************)
MaxTail == 4

\* the frame of tests/test_target_price.py: consecutive Fridays, the given
\* closes and their rolling 52-week mean
CloseFrame(closes) ==
    [k \in 1..Len(closes) |->
        [week_end |-> WeekEnd(DAYS_PER_WEEK * (k - 1)), close |-> closes[k],
         ma52 |-> RollingMean(closes, k)]]

Flat(n, close) == [k \in 1..n |-> close]

\* 58 closes of 100, then 99 and 130
TestFrame == CloseFrame(Flat(58, 100) \o <<99, 130>>)

\* 51 closes of 100, then up to MaxTail closes around the mean
FrameInputs ==
    {TestFrame} \cup
    {CloseFrame(Flat(MA52_WINDOW - 1, 100) \o tail) :
        tail \in SeqsUpTo({99, 100, 130}, MaxTail)}

InitBreakout ==
    /\ frameIn \in FrameInputs
    /\ breakoutOut = None
    /\ breakoutPc = "input"
    /\ snapshot = IdleSnapshot
    /\ EvalIdle /\ BatchIdle
    /\ TrendIdle /\ VipIdle /\ WeeklyIdle /\ FormulaIdle /\ GridIdle
    /\ JobIdle
    /\ NormIdle
    /\ OcfIdle
    /\ DetectIdle
    /\ PointIdle
    /\ CachedIdle
    /\ CacheIdle

CallFindLatestWeeklyBreakout ==
    /\ breakoutPc = "input"
    /\ breakoutOut' = find_latest_weekly_breakout(frameIn)
    /\ breakoutPc' = "done"
    /\ UNCHANGED frameIn

NextBreakout == CallFindLatestWeeklyBreakout /\ UNCHANGED notBreakoutVars

SpecBreakout == InitBreakout /\ [][NextBreakout]_vars

(***************************************************************************)
(* Direct calls of apply_target_price_formula on a base dict and the two   *)
(* parameters                                                              *)
(***************************************************************************)
MaxOver == 1

\* the base of tests/test_target_price.py and its variations: a field
\* missing, a market cap or current price that is not positive, an error
BaseInputs ==
    [market_cap : {None, Some(0), Some(1000000)},
     current_price : {None, Some(0), Some(10000)},
     breakout_week_end : {None, Some(WeekEnd(0))},
     breakout_price : {None, Some(9800)},
     breakout_trading_value : {None, Some(200000)},
     error : {None, Some(ERROR_NO_HISTORY)}]

\* float_rate_pct: not a number, below, at and above [1, 100]
RateInputs ==
    {None} \cup {Some(Whole(r)) : r \in {-5, 0, 1, 20, 100} \cup {100 + k : k \in 1..MaxOver}}

\* multiplier, in tenths: not a number, below, at and above [0.1, 5]
MultiplierInputs ==
    {None} \cup {Some(FNorm(m, 10)) : m \in {-10, 0, 1, 20, 50} \cup {50 + k : k \in 1..MaxOver}}

InitFormula ==
    /\ baseIn \in BaseInputs
    /\ rateIn \in RateInputs
    /\ multIn \in MultiplierInputs
    /\ formulaOut = <<>>
    /\ formulaPc = "input"
    /\ snapshot = IdleSnapshot
    /\ EvalIdle /\ BatchIdle
    /\ TrendIdle /\ VipIdle /\ WeeklyIdle /\ BreakoutIdle /\ GridIdle
    /\ JobIdle
    /\ NormIdle
    /\ OcfIdle
    /\ DetectIdle
    /\ PointIdle
    /\ CachedIdle
    /\ CacheIdle

CallApplyTargetPriceFormula ==
    /\ formulaPc = "input"
    /\ formulaOut' = apply_target_price_formula(baseIn, rateIn, multIn)
    /\ formulaPc' = "done"
    /\ UNCHANGED <<baseIn, rateIn, multIn>>

NextFormula == CallApplyTargetPriceFormula /\ UNCHANGED notFormulaVars

SpecFormula == InitFormula /\ [][NextFormula]_vars

(***************************************************************************)
(* Direct calls of _evaluate_grid, and main picking the first row          *)
(***************************************************************************)
MaxEvents == 3
MaxDate == 3

\* breakouts at 100 with a trading value of a tenth of the market cap: the
\* target is 100 * (1 + 10 * multiplier / float_rate)
EventTypes ==
    [breakout_date : 1..MaxDate, breakout_price : {100},
     breakout_trading_value : {10}, market_cap : {100},
     future_max_high : {105, 145}]

\* build_event_frame returns the events sorted by breakout_date
EventInputs ==
    {ev \in SeqsUpTo(EventTypes, MaxEvents) :
        \A k \in 1..(Len(ev) - 1) : ev[k].breakout_date <= ev[k + 1].breakout_date}

FloatRateGrids ==
    {<<Whole(0), Whole(50), Whole(100)>>, <<Whole(100), Whole(50)>>}

MultiplierGrids ==
    {<<Whole(1), Whole(2)>>, <<Whole(2), Frac(1, 2)>>}

InitGrid ==
    /\ eventsIn \in EventInputs
    /\ ratesIn \in FloatRateGrids
    /\ multsIn \in MultiplierGrids
    /\ cutoffIn \in 1..(MaxDate + 1)
    /\ gridOut = <<>>
    /\ bestOut = None
    /\ gridPc = "input"
    /\ snapshot = IdleSnapshot
    /\ EvalIdle /\ BatchIdle
    /\ TrendIdle /\ VipIdle /\ WeeklyIdle /\ BreakoutIdle /\ FormulaIdle
    /\ JobIdle
    /\ NormIdle
    /\ OcfIdle
    /\ DetectIdle
    /\ PointIdle
    /\ CachedIdle
    /\ CacheIdle

CallEvaluateGrid ==
    /\ gridPc = "input"
    /\ gridOut' = evaluate_grid(eventsIn, ratesIn, multsIn, cutoffIn)
    /\ gridPc' = "table"
    /\ UNCHANGED <<eventsIn, ratesIn, multsIn, cutoffIn, bestOut>>

\* main, lines 260-263: an empty table ends the run, else the first row is
\* the recommended default
SelectBest ==
    /\ gridPc = "table"
    /\ IF gridOut = <<>>
       THEN gridPc' = "exit" /\ UNCHANGED bestOut
       ELSE gridPc' = "best" /\ bestOut' = Some(gridOut[1])
    /\ UNCHANGED <<eventsIn, ratesIn, multsIn, cutoffIn, gridOut>>

NextGrid ==
    \/ CallEvaluateGrid /\ UNCHANGED notGridVars
    \/ SelectBest /\ UNCHANGED notGridVars

SpecGrid == InitGrid /\ [][NextGrid]_vars

(***************************************************************************)
(* main of src/jobs/optimize_target_price_defaults.py: collect the events, *)
(* search the grid, write the table and the payload                        *)
(***************************************************************************)
EXIT_NO_EVENTS == "No events collected. Adjust symbols/date range."
EXIT_NO_ROWS == "Grid search produced no rows."
INDEX_ERROR == "IndexError"

\* round() of a fraction: to the nearest integer, a tie to the even one
RoundHalfEven(f) ==
    LET low == f.num \div f.den
        twice == 2 * (f.num - low * f.den)
    IN IF twice < f.den THEN low
       ELSE IF twice > f.den THEN low + 1
       ELSE IF low % 2 = 0 THEN low ELSE low + 1

\* _grid_values: min_v + step * i for i in range(count + 1), the values
\* above max_v dropped
grid_values(min_v, max_v, step) ==
    LET count == RoundHalfEven(FDiv(FSub(max_v, min_v), step))
        vals == [i \in 1..(count + 1) |-> FAdd(min_v, FMul(step, Whole(i - 1)))]
        kept == {i \in 1..(count + 1) : FracLE(vals[i], max_v)}
    IN [j \in 1..Cardinality(kept) |-> vals[Ascending(kept)[j]]]

\* lines 249 and 260 with the second guard left out
GridFailed_never(grid_table) == FALSE

\* if table.empty: raise SystemExit("Grid search produced no rows.")
GridFailed(grid_table) == grid_table = <<>>

\* the payload of lines 270-285 that depends on the run
Payload(events, grid_table, best) ==
    [event_count |-> Len(events), best |-> best, top10 |-> FirstN(grid_table, 10)]

\* --float-min/max/step, --mult-min/max/step and --validation-start
JobArgInputs ==
    [float_grid : {<<Whole(0), Whole(100), Whole(50)>>, <<Whole(50), Whole(100), Whole(50)>>},
     mult_grid : {<<Whole(1), Whole(2), Whole(1)>>, <<Frac(1, 2), Whole(2), Frac(3, 2)>>},
     validation_start : 1..(MaxDate + 1)]

InitJob ==
    /\ jobArgs \in JobArgInputs
    /\ jobEvents = <<>>
    /\ jobTable = <<>>
    /\ jobBest = None
    /\ jobWritten = {}
    /\ jobExit = None
    /\ jobPc = "events"
    /\ snapshot = IdleSnapshot
    /\ EvalIdle /\ BatchIdle
    /\ TrendIdle /\ VipIdle /\ WeeklyIdle /\ BreakoutIdle /\ FormulaIdle /\ GridIdle
    /\ NormIdle
    /\ OcfIdle
    /\ DetectIdle
    /\ PointIdle
    /\ CachedIdle
    /\ CacheIdle

\* lines 241-250: build_event_frame returns the events the provider gave,
\* sorted by date; no event ends the run
BuildEventFrame ==
    /\ jobPc = "events"
    /\ \E ev \in EventInputs :
        /\ jobEvents' = ev
        /\ IF ev = <<>>
           THEN jobExit' = Some(EXIT_NO_EVENTS) /\ jobPc' = "exit"
           ELSE jobExit' = jobExit /\ jobPc' = "grid"
    /\ UNCHANGED <<jobArgs, jobTable, jobBest, jobWritten>>

\* lines 252-261
EvaluateGrid ==
    /\ jobPc = "grid"
    /\ LET float_rates == grid_values(jobArgs.float_grid[1], jobArgs.float_grid[2], jobArgs.float_grid[3])
           multipliers == grid_values(jobArgs.mult_grid[1], jobArgs.mult_grid[2], jobArgs.mult_grid[3])
           grid_table == evaluate_grid(jobEvents, float_rates, multipliers, jobArgs.validation_start)
       IN /\ jobTable' = grid_table
          /\ IF GridFailed(grid_table)
             THEN jobExit' = Some(EXIT_NO_ROWS) /\ jobPc' = "exit"
             ELSE jobExit' = jobExit /\ jobPc' = "best"
    /\ UNCHANGED <<jobArgs, jobEvents, jobBest, jobWritten>>

\* line 263: table.iloc[0] raises IndexError on a table without rows
PickBest ==
    /\ jobPc = "best"
    /\ IF jobTable = <<>>
       THEN jobExit' = Some(INDEX_ERROR) /\ jobPc' = "exit" /\ UNCHANGED jobBest
       ELSE jobBest' = Some(jobTable[1]) /\ jobPc' = "csv" /\ UNCHANGED jobExit
    /\ UNCHANGED <<jobArgs, jobEvents, jobTable, jobWritten>>

\* line 269
WriteCsv ==
    /\ jobPc = "csv"
    /\ jobWritten' = jobWritten \cup {[path |-> "out_csv", content |-> jobTable]}
    /\ jobPc' = "json"
    /\ UNCHANGED <<jobArgs, jobEvents, jobTable, jobBest, jobExit>>

\* line 287
WriteJson ==
    /\ jobPc = "json"
    /\ jobWritten' = jobWritten \cup
          {[path |-> "out_json", content |-> Payload(jobEvents, jobTable, Val(jobBest))]}
    /\ jobPc' = "done"
    /\ UNCHANGED <<jobArgs, jobEvents, jobTable, jobBest, jobExit>>

NextJob ==
    \/ BuildEventFrame /\ UNCHANGED notJobVars
    \/ EvaluateGrid /\ UNCHANGED notJobVars
    \/ PickBest /\ UNCHANGED notJobVars
    \/ WriteCsv /\ UNCHANGED notJobVars
    \/ WriteJson /\ UNCHANGED notJobVars

SpecJob == InitJob /\ [][NextJob]_vars

(***************************************************************************)
(* Direct calls of normalize_ticker_input, and a second call on the result *)
(***************************************************************************)
MaxSeedRows == 2

Markets == {"KR_TOP200", "JP_TOP200", "US_TOP500", "EU_TOP200", "OTHER"}

S_OIL_ROW ==
    [symbol |-> <<"0", "1", "0", "9", "5", "0", ".", "K", "S">>,
     name |-> <<"S", "-", "O", "i", "l">>]
MSFT_ROW ==
    [symbol |-> <<"M", "S", "F", "T">>,
     name |-> <<"M", "i", "c", "r", "o", "s", "o", "f", "t">>]
ATT_ROW == [symbol |-> <<"T">>, name |-> <<"A", "T", "&", "T">>]
BRK_ROW == [symbol |-> <<"B", "R", "K", "-", "B">>, name |-> <<"B", "e", "r", "k">>]

\* the rows of a seed file, in file order
SeedInputs == SeqsUpTo({S_OIL_ROW, MSFT_ROW, ATT_ROW, BRK_ROW}, MaxSeedRows)

\* what get_top_universe returns; the one-row list is that of
\* tests/test_screens.py
NormUniverseInputs == {<<>>, <<S_OIL_ROW>>, <<MSFT_ROW, ATT_ROW, S_OIL_ROW>>}

TickerInputs ==
    { <<>>,
      <<"0", "0", "5", "9", "3", "0", ".", "K", "S">>,
      <<"0", "0", "5", "9", "3", "0">>,
      <<"1", "0", "9", "5", "0">>,
      <<"1", "2", "3", "4", "5", "6", "7">>,
      <<"7", "2", "0", "3">>,
      <<"7", "2", "0", "3", ".", "T">>,
      <<"B", "R", "K", ".", "B">>,
      <<"B", "R", "K", "-", "B">>,
      <<"A", "S", "M", "L", ".", "A", "S">>,
      <<"S", "-", "O", "I", "L">>,
      <<" ", "s", " ", "o", "i", "l">>,
      <<"S", "O", "I", "L">>,
      <<"A", "T", "&", "T">>,
      <<"T">> }

InitNorm ==
    /\ normMarket \in Markets
    /\ seedIn \in SeedInputs
    /\ universeIn \in NormUniverseInputs
    /\ tickerIn \in TickerInputs
    /\ normOut = <<>>
    /\ normAgain = <<>>
    /\ normPc = "input"
    /\ snapshot = IdleSnapshot
    /\ EvalIdle /\ BatchIdle
    /\ TrendIdle /\ VipIdle /\ WeeklyIdle /\ BreakoutIdle /\ FormulaIdle /\ GridIdle
    /\ JobIdle
    /\ OcfIdle
    /\ DetectIdle
    /\ PointIdle
    /\ CachedIdle
    /\ CacheIdle

CallNormalizeTickerInput ==
    /\ normPc = "input"
    /\ normOut' = normalize_ticker_input(normMarket, seedIn, universeIn, tickerIn)
    /\ normPc' = "once"
    /\ UNCHANGED <<normMarket, seedIn, universeIn, tickerIn, normAgain>>

\* the result handed to normalize_ticker_input once more
CallNormalizeTickerInputAgain ==
    /\ normPc = "once"
    /\ normAgain' = normalize_ticker_input(normMarket, seedIn, universeIn, normOut)
    /\ normPc' = "twice"
    /\ UNCHANGED <<normMarket, seedIn, universeIn, tickerIn, normOut>>

NextNorm ==
    \/ CallNormalizeTickerInput /\ UNCHANGED notNormVars
    \/ CallNormalizeTickerInputAgain /\ UNCHANGED notNormVars

SpecNorm == InitNorm /\ [][NextNorm]_vars

(***************************************************************************)
(* Direct calls of _extract_ocf_data on a ticker with the two cash-flow    *)
(* statements and an info dict (tests/test_market_data_ocf.py)             *)
(***************************************************************************)
MaxStatement == 2

\* the OCF row of a statement, newest first; info.operatingCashflow
OcfResponseInputs ==
    {[BlankResponse EXCEPT !.quarterly_ocf = q, !.annual_ocf = a, !.info_ocf = i] :
        q \in SeqsUpTo({10, 20}, MaxStatement),
        a \in SeqsUpTo({123, 5}, MaxStatement),
        i \in {None, Some(-999), Some(0), Some(123)}}

InitOcf ==
    /\ ocfIn \in OcfResponseInputs
    /\ ocfOut = <<>>
    /\ ocfPc = "input"
    /\ snapshot = IdleSnapshot
    /\ EvalIdle /\ BatchIdle
    /\ TrendIdle /\ VipIdle /\ WeeklyIdle /\ BreakoutIdle /\ FormulaIdle /\ GridIdle
    /\ JobIdle /\ NormIdle
    /\ DetectIdle
    /\ PointIdle
    /\ CachedIdle
    /\ CacheIdle

CallExtractOcfData ==
    /\ ocfPc = "input"
    /\ ocfOut' = extract_ocf_data(ocfIn)
    /\ ocfPc' = "done"
    /\ UNCHANGED ocfIn

NextOcf == CallExtractOcfData /\ UNCHANGED notOcfVars

SpecOcf == InitOcf /\ [][NextOcf]_vars

(***************************************************************************)
(* Direct calls of _detect_breakout_rows, and of                           *)
(* find_latest_weekly_breakout on the same weekly frame                    *)
(***************************************************************************)
MaxBreakoutBars == 4

\* closes below and above an MA52 of 100, Highs that tell the bars apart, a
\* bar without turnover, a bar without High and a bar before the 52nd week
WeeklyRowTypes ==
    { [close |-> 90, ma52 |-> Some(Whole(100)), high |-> Some(95), trading_value |-> 5],
      [close |-> 90, ma52 |-> None, high |-> Some(95), trading_value |-> 5],
      [close |-> 130, ma52 |-> Some(Whole(100)), high |-> Some(135), trading_value |-> 5],
      [close |-> 130, ma52 |-> Some(Whole(100)), high |-> Some(140), trading_value |-> 5],
      [close |-> 130, ma52 |-> Some(Whole(100)), high |-> Some(135), trading_value |-> 0],
      [close |-> 130, ma52 |-> Some(Whole(100)), high |-> None, trading_value |-> 5] }

\* consecutive Fridays
WeeklyFrameOf(bars) ==
    [k \in 1..Len(bars) |->
        [week_end |-> WeekEnd(DAYS_PER_WEEK * (k - 1)), close |-> bars[k].close,
         ma52 |-> bars[k].ma52, high |-> bars[k].high,
         trading_value |-> bars[k].trading_value]]

WeeklyFrameInputs == {WeeklyFrameOf(bars) : bars \in SeqsUpTo(WeeklyRowTypes, MaxBreakoutBars)}

InitDetect ==
    /\ detIn \in WeeklyFrameInputs
    /\ detCap \in {0, 1000}
    /\ detHorizon \in {0, 1, 2}
    /\ detOut = <<>>
    /\ detLatest = None
    /\ detPc = "input"
    /\ snapshot = IdleSnapshot
    /\ EvalIdle /\ BatchIdle
    /\ TrendIdle /\ VipIdle /\ WeeklyIdle /\ BreakoutIdle /\ FormulaIdle /\ GridIdle
    /\ JobIdle /\ NormIdle /\ OcfIdle
    /\ PointIdle
    /\ CachedIdle
    /\ CacheIdle

CallDetectBreakoutRows ==
    /\ detPc = "input"
    /\ detOut' = detect_breakout_rows(detIn, detCap, detHorizon)
    /\ detPc' = "events"
    /\ UNCHANGED <<detIn, detCap, detHorizon, detLatest>>

\* the live evaluation of the same frame
CallFindLatestOnSameFrame ==
    /\ detPc = "events"
    /\ detLatest' = find_latest_weekly_breakout(detIn)
    /\ detPc' = "both"
    /\ UNCHANGED <<detIn, detCap, detHorizon, detOut>>

NextDetect ==
    \/ CallDetectBreakoutRows /\ UNCHANGED notDetectVars
    \/ CallFindLatestOnSameFrame /\ UNCHANGED notDetectVars

SpecDetect == InitDetect /\ [][NextDetect]_vars

(***************************************************************************)
(* One event at one grid point of _evaluate_grid, and                      *)
(* apply_target_price_formula on a base that holds the event's numbers     *)
(***************************************************************************)
\* grid values below, at the ends of, inside and above [1, 100]
PointRates == {Whole(0), Frac(1, 2), Whole(1), Whole(50), Whole(100), Whole(100 + MaxOver)}

\* grid values below, at the ends of, inside and above [0.1, 5]
PointMultipliers ==
    {Whole(0), Frac(1, 20), Frac(1, 10), Whole(1), Whole(5), Whole(5 + MaxOver)}

\* the base of the event: its date, price, trading value and market cap
BaseOfEvent(event) ==
    [market_cap |-> Some(event.market_cap), current_price |-> Some(event.breakout_price),
     breakout_week_end |-> Some(event.breakout_date),
     breakout_price |-> Some(event.breakout_price),
     breakout_trading_value |-> Some(event.breakout_trading_value), error |-> None]

InitPoint ==
    /\ pointEvent \in EventTypes
    /\ pointRate \in PointRates
    /\ pointMult \in PointMultipliers
    /\ pointGrid = None
    /\ pointFormula = <<>>
    /\ pointPc = "input"
    /\ snapshot = IdleSnapshot
    /\ EvalIdle /\ BatchIdle
    /\ TrendIdle /\ VipIdle /\ WeeklyIdle /\ BreakoutIdle /\ FormulaIdle /\ GridIdle
    /\ JobIdle /\ NormIdle /\ OcfIdle /\ DetectIdle
    /\ CachedIdle
    /\ CacheIdle

\* the loop body of _evaluate_grid for the event: a float rate <= 0 is
\* skipped
EvaluateGridPoint ==
    /\ pointPc = "input"
    /\ pointGrid' = IF pointRate.num <= 0 THEN None
                    ELSE Some([target |-> GridTarget(pointEvent, pointRate, pointMult),
                               hit |-> GridHit(pointEvent, pointRate, pointMult)])
    /\ pointPc' = "grid"
    /\ UNCHANGED <<pointEvent, pointRate, pointMult, pointFormula>>

ApplyFormulaToEvent ==
    /\ pointPc = "grid"
    /\ pointFormula' =
          apply_target_price_formula(BaseOfEvent(pointEvent), Some(pointRate), Some(pointMult))
    /\ pointPc' = "both"
    /\ UNCHANGED <<pointEvent, pointRate, pointMult, pointGrid>>

NextPoint ==
    \/ EvaluateGridPoint /\ UNCHANGED notPointVars
    \/ ApplyFormulaToEvent /\ UNCHANGED notPointVars

SpecPoint == InitPoint /\ [][NextPoint]_vars

(***************************************************************************)
(* The target-price page: _target_base builds the base of a ticker once,   *)
(* every change of a parameter calls apply_target_price_formula on it      *)
(***************************************************************************)
MaxCalls == 2

NoBreakoutBase ==
    [market_cap |-> Some(1000000), current_price |-> Some(10000),
     breakout_week_end |-> None, breakout_price |-> None,
     breakout_trading_value |-> None, error |-> None]

NoCapBase ==
    [market_cap |-> None, current_price |-> Some(10000),
     breakout_week_end |-> Some(WeekEnd(0)), breakout_price |-> Some(9800),
     breakout_trading_value |-> Some(200000), error |-> None]

NoHistoryBase ==
    [market_cap |-> None, current_price |-> None,
     breakout_week_end |-> None, breakout_price |-> None,
     breakout_trading_value |-> None, error |-> Some(ERROR_NO_HISTORY)]

\* what build_target_price_base returns for a symbol
CachedBaseInputs ==
    { [market_cap |-> Some(1000000), current_price |-> Some(10000),
       breakout_week_end |-> Some(WeekEnd(0)), breakout_price |-> Some(9800),
       breakout_trading_value |-> Some(200000), error |-> None],
      NoBreakoutBase, NoCapBase, NoHistoryBase }

\* the number input and the slider, and values a direct caller may pass
PageRates == {None, Some(Whole(20)), Some(Whole(100 + MaxOver))}
PageMultipliers == {None, Some(Whole(2)), Some(Frac(1, 10))}

InitCached ==
    /\ builtBase \in CachedBaseInputs
    /\ heldBase = builtBase
    /\ callLog = <<>>
    /\ snapshot = IdleSnapshot
    /\ EvalIdle /\ BatchIdle
    /\ TrendIdle /\ VipIdle /\ WeeklyIdle /\ BreakoutIdle /\ FormulaIdle /\ GridIdle
    /\ JobIdle /\ NormIdle /\ OcfIdle /\ DetectIdle /\ PointIdle
    /\ CacheIdle

\* app.py 96-99: one rerun of the page with the parameters of the widgets
ApplyOnCachedBase ==
    /\ Len(callLog) < MaxCalls
    /\ \E f \in PageRates, m \in PageMultipliers :
        LET call == apply_call(heldBase, f, m)
        IN /\ heldBase' = call.base
           /\ callLog' = Append(callLog, [float_rate_pct |-> f, multiplier |-> m,
                                          result |-> call.result])
    /\ UNCHANGED builtBase

NextCached == ApplyOnCachedBase /\ UNCHANGED notCachedVars

SpecCached == InitCached /\ [][NextCached]_vars

(***************************************************************************)
(* The cache directory shared by the app sessions and the daily_refresh    *)
(* job.  save_meta is two file operations, the read of load_meta and the   *)
(* write_text, and another process may run between them.                   *)
(***************************************************************************)
MaxClock == 1

Sessions == {"s1", "s2"}

\* what build_recommendations returns: no row (no universe, no provider)
\* or a table
BuildResults == {<<>>, <<"row">>}

CountrySet == {CacheCountries[i] : i \in 1..Len(CacheCountries)}

NoUpdates == [k \in MetaKeys |-> None]

IdleSession == [pc |-> "idle", country |-> "", stamp |-> 0, loaded |-> EmptyMeta]
IdleJob == [pc |-> "idle", idx |-> 1, status |-> NoUpdates, loaded |-> EmptyMeta]

InitCache ==
    /\ diskFrames = [c \in CountrySet |-> None]
    /\ metaFile = EmptyMeta
    /\ clock = 0
    /\ sessions = [s \in Sessions |-> IdleSession]
    /\ refreshJob = IdleJob
    /\ snapshot = IdleSnapshot
    /\ EvalIdle /\ BatchIdle
    /\ TrendIdle /\ VipIdle /\ WeeklyIdle /\ BreakoutIdle /\ FormulaIdle /\ GridIdle
    /\ JobIdle /\ NormIdle /\ OcfIdle /\ DetectIdle /\ PointIdle /\ CachedIdle

Tick ==
    /\ clock < MaxClock
    /\ clock' = clock + 1
    /\ UNCHANGED <<diskFrames, metaFile, sessions, refreshJob>>

\* _load_or_build up to save_country_frame, app.py 43-52
LoadOrBuild(s) ==
    /\ sessions[s].pc = "idle"
    /\ \E c \in CountrySet, force_refresh \in BOOLEAN, fresh \in BuildResults :
        IF ~force_refresh /\ cache_usable(diskFrames[c])
        THEN /\ sessions' = [sessions EXCEPT ![s].country = c]
             /\ UNCHANGED diskFrames
        ELSE IF should_save(fresh)
        THEN /\ diskFrames' = [diskFrames EXCEPT ![c] = Some(fresh)]
             /\ sessions' = [sessions EXCEPT ![s] =
                    [pc |-> "load_meta", country |-> c, stamp |-> clock, loaded |-> EmptyMeta]]
        ELSE /\ sessions' = [sessions EXCEPT ![s].country = c]
             /\ UNCHANGED diskFrames
    /\ UNCHANGED <<metaFile, clock, refreshJob>>

\* save_meta, line 29: meta = load_meta()
SessionLoadMeta(s) ==
    /\ sessions[s].pc = "load_meta"
    /\ sessions' = [sessions EXCEPT ![s].pc = "write_meta", ![s].loaded = metaFile]
    /\ UNCHANGED <<diskFrames, metaFile, clock, refreshJob>>

\* save_meta, lines 30-32
SessionWriteMeta(s) ==
    /\ sessions[s].pc = "write_meta"
    /\ metaFile' = updated_meta(sessions[s].loaded,
                                [NoUpdates EXCEPT ![sessions[s].country] = Some(sessions[s].stamp)],
                                clock)
    /\ sessions' = [sessions EXCEPT ![s].pc = "idle", ![s].loaded = EmptyMeta, ![s].stamp = 0]
    /\ UNCHANGED <<diskFrames, clock, refreshJob>>

\* daily_refresh.main, line 11
JobStart ==
    /\ refreshJob.pc = "idle"
    /\ refreshJob' = [IdleJob EXCEPT !.pc = "build"]
    /\ UNCHANGED <<diskFrames, metaFile, clock, sessions>>

\* one turn of the loop, lines 12-15: the frame is saved whatever it holds
JobBuildAndSave ==
    /\ refreshJob.pc = "build"
    /\ \E df \in BuildResults :
        LET c == CacheCountries[refreshJob.idx]
        IN /\ diskFrames' = [diskFrames EXCEPT ![c] = Some(df)]
           /\ refreshJob' =
                [refreshJob EXCEPT !.status[c] = Some(clock),
                                   !.idx = IF @ < Len(CacheCountries) THEN @ + 1 ELSE 1,
                                   !.pc = IF refreshJob.idx < Len(CacheCountries)
                                          THEN "build" ELSE "load_meta"]
    /\ UNCHANGED <<metaFile, clock, sessions>>

\* save_meta(status), line 29
JobLoadMeta ==
    /\ refreshJob.pc = "load_meta"
    /\ refreshJob' = [refreshJob EXCEPT !.pc = "write_meta", !.loaded = metaFile]
    /\ UNCHANGED <<diskFrames, metaFile, clock, sessions>>

\* save_meta(status), lines 30-32
JobWriteMeta ==
    /\ refreshJob.pc = "write_meta"
    /\ metaFile' = updated_meta(refreshJob.loaded, refreshJob.status, clock)
    /\ refreshJob' = IdleJob
    /\ UNCHANGED <<diskFrames, clock, sessions>>

NextCache ==
    \/ Tick /\ UNCHANGED notCacheVars
    \/ \E s \in Sessions : LoadOrBuild(s) /\ UNCHANGED notCacheVars
    \/ \E s \in Sessions : SessionLoadMeta(s) /\ UNCHANGED notCacheVars
    \/ \E s \in Sessions : SessionWriteMeta(s) /\ UNCHANGED notCacheVars
    \/ JobStart /\ UNCHANGED notCacheVars
    \/ JobBuildAndSave /\ UNCHANGED notCacheVars
    \/ JobLoadMeta /\ UNCHANGED notCacheVars
    \/ JobWriteMeta /\ UNCHANGED notCacheVars

SpecCache == InitCache /\ [][NextCache]_vars

(***************************************************************************)
(* Properties of compute_multiple and evaluate_snapshot (SpecEval)         *)
(***************************************************************************)
HasCap == ~IsNone(snapshot.market_cap)

\* the trailing annual OCF as specified: the sum of the 4 quarterly values
\* when all 4 are present, else ocf_ttm
SpecTrailingOcf ==
    IF Len(snapshot.ocf_q) >= OCF_QUARTERS
    THEN Some(Whole(SumSeq(SubSeq(snapshot.ocf_q, 1, OCF_QUARTERS))))
    ELSE snapshot.ocf_ttm

NoValue(reason) == [value |-> None, reason |-> reason]

\* C1: with a market cap, compute_multiple divides by the sum of the 4
\* quarterly values when all 4 are present and otherwise by ocf_ttm: a
\* positive trailing OCF gives multiple = market_cap / trailing OCF with an
\* empty reason, also when fewer than 4 quarters are present.
C1_TtmFallback ==
    (evalPc = "multiple" /\ HasCap /\ ~IsNone(SpecTrailingOcf)
        /\ Val(SpecTrailingOcf).num > 0)
    => /\ cm.reason = ""
       /\ ~IsNone(cm.value)
       /\ FracEq(Val(cm.value),
                 Frac(Val(snapshot.market_cap) * Val(SpecTrailingOcf).den,
                      Val(SpecTrailingOcf).num))

\* C2: with a market cap, fewer than 4 quarterly values and no ocf_ttm,
\* compute_multiple returns no value and the insufficient-OCF reason.
C2_InsufficientOcf ==
    (evalPc = "multiple" /\ HasCap /\ Len(snapshot.ocf_q) < OCF_QUARTERS
        /\ IsNone(snapshot.ocf_ttm))
    => cm = NoValue(REASON_NO_OCF)

C2_Witness ==
    /\ evalPc = "multiple" /\ HasCap
    /\ Len(snapshot.ocf_q) = OCF_QUARTERS - 1
    /\ SumSeq(snapshot.ocf_q) > 0
    /\ IsNone(snapshot.ocf_ttm)
    /\ cm = NoValue(REASON_NO_OCF)

\* C3: with a market cap, a trailing annual OCF (4-quarter sum, or the
\* ocf_ttm fallback) that is <= 0 gives no value and the reason "OCF<=0".
C3_NonPositiveOcf ==
    (evalPc = "multiple" /\ HasCap /\ ~IsNone(SpecTrailingOcf)
        /\ Val(SpecTrailingOcf).num <= 0)
    => cm = NoValue(REASON_OCF_NONPOS)

\* C4: without a market cap compute_multiple returns no value and the
\* insufficient-data reason, whatever the OCF fields hold.
C4_NoMarketCap ==
    (evalPc = "multiple" /\ ~HasCap) => cm = NoValue(REASON_NO_DATA)

C4_Witness ==
    /\ evalPc = "multiple" /\ ~HasCap
    /\ Len(snapshot.ocf_q) = OCF_QUARTERS
    /\ SumSeq(snapshot.ocf_q) <= 0
    /\ cm = NoValue(REASON_NO_DATA)

\* C5: a market cap <= 0 is unusable like an absent one: compute_multiple
\* yields no multiple and evaluate_snapshot does not recommend.
C5_NonPositiveCap ==
    (HasCap /\ Val(snapshot.market_cap) <= 0)
    => /\ evalPc = "multiple" => IsNone(cm.value)
       /\ evalPc = "signal" => ~signal.is_recommended

\* C6: is_recommended holds exactly when the computed multiple exists and
\* is <= 14.0, whatever the sales trend and the VIP result are.
C6_RecommendedIffMultiple ==
    evalPc = "signal"
    => /\ signal.multiple = compute_multiple(snapshot).value
       /\ signal.is_recommended
            <=> (~IsNone(signal.multiple)
                 /\ Val(signal.multiple).num
                        <= MULTIPLE_THRESHOLD * Val(signal.multiple).den)

C6_Witness ==
    /\ evalPc = "signal"
    /\ signal.is_recommended
    /\ ~IsNone(signal.multiple)
    /\ Val(signal.multiple).num = MULTIPLE_THRESHOLD * Val(signal.multiple).den
    /\ ~signal.vip_pass
    /\ signal.sales_trend = TREND_DOWN

\* C7: rejection_reason is empty exactly when is_recommended; a rejected
\* signal carries the reason of the failed multiple computation, or the
\* multiple>14 reason when the multiple was computed.
C7_ReasonIffRejected ==
    evalPc = "signal"
    => /\ (signal.rejection_reason = "") <=> signal.is_recommended
       /\ ~signal.is_recommended
            => signal.rejection_reason =
                 IF IsNone(signal.multiple)
                 THEN compute_multiple(snapshot).reason
                 ELSE REASON_MULTIPLE_HIGH
       /\ IsNone(signal.multiple)
            => signal.rejection_reason
                 \in {REASON_NO_DATA, REASON_NO_OCF, REASON_OCF_NONPOS}

C7_Witness ==
    /\ evalPc = "signal"
    /\ ~signal.is_recommended
    /\ ~IsNone(signal.multiple)
    /\ signal.vip_pass
    /\ signal.rejection_reason = REASON_MULTIPLE_HIGH

(***************************************************************************)
(* Properties of the ranked table and of the single-ticker result (Spec)   *)
(***************************************************************************)
\* the strong-recommend condition as specified, read off a result row
StrongCondition(row) ==
    /\ row.sales_trend = TREND_UP
    /\ ~IsNone(row.multiple)
    /\ Val(row.multiple).num <= STRONG_MULTIPLE * Val(row.multiple).den

StrongFlagRight(row) ==
    /\ row.strong_recommend <=> StrongCondition(row)
    /\ row.strong_recommend => row.is_recommended

\* C8: in the batch table and in the single-ticker result alike, the strong
\* flag is true exactly when the trend is UP and the multiple exists and is
\* <= 10.0, and a strong row is a recommended row.
C8_StrongFlag ==
    /\ pc = "done" => \A k \in 1..Len(table) : StrongFlagRight(table[k])
    /\ (pc = "single" /\ ~IsNone(single)) => StrongFlagRight(Val(single))

C8_Witness ==
    /\ pc = "done"
    /\ \E i, j \in 1..Len(table) :
        /\ table[i].strong_recommend
        /\ Val(table[i].multiple).num = STRONG_MULTIPLE * Val(table[i].multiple).den
        /\ ~table[j].strong_recommend
        /\ table[j].is_recommended
        /\ Val(table[j].multiple).num = STRONG_MULTIPLE * Val(table[j].multiple).den
        /\ table[j].sales_trend = TREND_UNKNOWN

\* C9: for a row a placed before a row b: a is strong or b is not; with
\* equal strong flags a is recommended or b is not; with both flags equal
\* market_cap(a) >= market_cap(b), rows without a market cap coming last.
C9_RankOrder ==
    pc = "done"
    => \A i, j \in 1..Len(table) :
         i < j =>
           LET a == table[i]
               b == table[j]
           IN /\ a.strong_recommend \/ ~b.strong_recommend
              /\ a.strong_recommend = b.strong_recommend
                   => (a.is_recommended \/ ~b.is_recommended)
              /\ (a.strong_recommend = b.strong_recommend
                    /\ a.is_recommended = b.is_recommended)
                   => \/ IsNone(b.market_cap)
                      \/ /\ ~IsNone(a.market_cap)
                         /\ Val(a.market_cap) >= Val(b.market_cap)

C9_Witness ==
    /\ pc = "done"
    /\ Len(table) = 3
    /\ table[1].strong_recommend /\ table[2].strong_recommend
    /\ Val(table[1].market_cap) > Val(table[2].market_cap)
    /\ table[1].symbol = universe[3].symbol
    /\ table[2].symbol = universe[2].symbol
    /\ IsNone(table[3].market_cap)

\* C10: with empty filters the table has exactly one row for every symbol
\* of the universe, and the row of a symbol whose provider call failed has
\* no market cap, no multiple and the fetch-failed reason.
C10_FailedFetchReported ==
    (pc = "done" /\ filters = NoFilters)
    => /\ Len(table) = Len(universe)
       /\ \A k \in 1..Len(universe) :
            \E j \in 1..Len(table) :
              /\ table[j].symbol = universe[k].symbol
              /\ \A i \in 1..Len(table) : table[i].symbol = universe[k].symbol => i = j
              /\ provider[k].kind # "ok"
                   => /\ IsNone(table[j].multiple)
                      /\ ~table[j].is_recommended
                      /\ table[j].rejection_reason = REASON_FETCH_FAILED

(***************************************************************************)
(* Properties of classify_sales_trend (SpecTrend)                          *)
(***************************************************************************)
\* the entries of a list that are present, in order
RECURSIVE Present(_)
Present(list) ==
    IF list = <<>> THEN <<>>
    ELSE IF IsNone(Head(list)) THEN Present(Tail(list))
    ELSE <<Val(Head(list))>> \o Present(Tail(list))

\* The reference classification: the least-squares line y = a + b x through
\* (0, y1) .. (4, y5), b = (n Sxy - Sx Sy) / (n Sxx - Sx Sx) and
\* a = (Sy - b Sx) / n, here with n = 5, Sx = 10, Sxx = 30, so that
\* b = bNum / 50 and a = (10 Sy - 2 bNum) / 50;
\* R^2 = 1 - SSres / SStot, taken as 0 when SStot = 0.
TrendReference(list) ==
    LET pts == Present(list)
    IN IF Len(pts) < 5 THEN TREND_UNKNOWN
       ELSE LET y == SubSeq(pts, 1, 5)
                x == [k \in 1..5 |-> k - 1]
                sy == SumSeq(y)
                sxy == SumSeq([k \in 1..5 |-> x[k] * y[k]])
                bNum == 5 * sxy - 10 * sy
                \* 50 times the residual of point k
                res50 == [k \in 1..5 |-> 50 * y[k] - bNum * x[k] - (10 * sy - 2 * bNum)]
                \* 2500 SSres and 2500 SStot
                ssRes == SumSeq([k \in 1..5 |-> res50[k] * res50[k]])
                ssTot == 100 * SumSeq([k \in 1..5 |-> (5 * y[k] - sy) * (5 * y[k] - sy)])
                r2Low == IF ssTot = 0 THEN TRUE
                         ELSE (ssTot - ssRes) * 100 < 35 * ssTot
                \* mean(|y|) = sumAbs / 5; scale = max(mean(|y|), 1) = scale5 / 5
                sumAbs == SumSeq([k \in 1..5 |-> Abs(y[k])])
                scale5 == Max(sumAbs, 5)
                \* |b / scale| <= 0.02, b / scale = bNum / (10 scale5)
                slopeSmall == Abs(bNum) * 100 <= 2 * 10 * scale5
            IN IF r2Low \/ slopeSmall THEN TREND_FLAT
               ELSE IF bNum > 0 THEN TREND_UP
               ELSE TREND_DOWN

\* C11: classify_sales_trend equals the reference on every input list:
\* fewer than 5 present points give UNKNOWN, else the least-squares fit of
\* the first 5 gives FLAT (R^2 < 0.35 or |normalized slope| <= 0.02), UP or
\* DOWN; [100,110,130,160,200] is UP, [200,180,160,150,130] is DOWN and a
\* 4-point input is UNKNOWN.
C11_TrendReference ==
    trendPc = "done"
    => /\ trendOut = TrendReference(trendIn)
       /\ Present(trendIn) = <<100, 110, 130, 160, 200>> => trendOut = TREND_UP
       /\ Present(trendIn) = <<200, 180, 160, 150, 130>> => trendOut = TREND_DOWN
       /\ Len(Present(trendIn)) = 4 => trendOut = TREND_UNKNOWN

\* a 6-entry list with a missing entry, classified on the 5 present ones
\* as FLAT only because the normalized slope is small
C11_Witness ==
    /\ trendPc = "done"
    /\ Len(trendIn) = 6
    /\ Len(Present(trendIn)) = 5
    /\ trendOut = TREND_FLAT
    /\ classify_sales_trend_r2_only(trendIn) = TREND_UP

(***************************************************************************)
(* Properties of evaluate_vip (SpecVip)                                    *)
(***************************************************************************)
\* w times the mean of the w closes ending at day t
TrailingSum(series, w, t) == SumRange(series, t - w + 1, t)

\* the four conditions as specified, on a series of at least 350 closes
VipConditions(series) ==
    LET n == Len(series)
        close == series[n]
        ma224x224 == TrailingSum(series, 224, n)
        ma112x112 == TrailingSum(series, 112, n)
        recent == (n - 126 + 1)..n
        below == {t \in recent : series[t] * 224 < TrailingSum(series, 224, t)}
    IN /\ close * 224 < ma224x224
       /\ 3 * Cardinality(below) >= 2 * 126
       /\ ma112x112 * 224 < ma224x224 * 112
       /\ ma112x112 < close * 112
       /\ close * 224 < ma224x224

\* C12: evaluate_vip is true exactly when the series has at least
\* 224 + 126 = 350 closes and the four conditions hold on the latest values;
\* a shorter series gives false.
C12_VipIffConditions ==
    vipPc = "done"
    => /\ vipOut <=> (Len(vipIn) >= 224 + 126 /\ VipConditions(vipIn))
       /\ Len(vipIn) < 350 => ~vipOut

\* a series that passes with exactly 2/3 of the recent closes below MA224
C12_Witness ==
    /\ vipPc = "done"
    /\ vipOut
    /\ LET n == Len(vipIn)
       IN 3 * Cardinality({t \in (n - 125)..n :
                             vipIn[t] * 224 < TrailingSum(vipIn, 224, t)}) = 2 * 126

(***************************************************************************)
(* Properties of resample_daily_to_weekly (SpecWeekly)                     *)
(***************************************************************************)
\* positions of the daily bars of the week that ends on friday
DaysOfWeek(friday) ==
    {k \in 1..Len(dailyIn) : dailyIn[k].day <= friday /\ dailyIn[k].day > friday - 7}

\* the weekly bar w is the aggregate of the daily bars of its week
IsWeekAggregate(w) ==
    LET ks == DaysOfWeek(w.week_end)
        firstDay == MinOf(ks)
        lastDay == MaxOf(ks)
    IN /\ ks # {}
       /\ w.open = dailyIn[firstDay].open
       /\ w.close = dailyIn[lastDay].close
       /\ \A k \in ks : w.high >= dailyIn[k].high /\ w.low <= dailyIn[k].low
       /\ \E k \in ks : w.high = dailyIn[k].high
       /\ \E k \in ks : w.low = dailyIn[k].low
       /\ w.volume = SumSeq([j \in 1..Cardinality(ks) |-> dailyIn[firstDay + j - 1].volume])
       /\ w.trading_value =
            SumSeq([j \in 1..Cardinality(ks) |-> dailyIn[firstDay + j - 1].trading_value])

\* C13: every week (Saturday .. Friday) with a daily bar gives exactly one
\* weekly bar, the aggregate of its days; a week without a daily bar gives
\* none; the weekly trading values add up to the daily total; 10 business
\* days over 2 weeks at trading value 1100 give 2 bars of 5500.
C13_WeeklyAggregates ==
    weeklyPc = "done"
    => /\ \A k \in 1..Len(dailyIn) :
            Cardinality({i \in 1..Len(weeklyOut) :
                            /\ weeklyOut[i].week_end >= dailyIn[k].day
                            /\ weeklyOut[i].week_end < dailyIn[k].day + 7}) = 1
       /\ \A i \in 1..Len(weeklyOut) :
            /\ weeklyOut[i].week_end % 7 = 6
            /\ IsWeekAggregate(weeklyOut[i])
       /\ SumSeq([i \in 1..Len(weeklyOut) |-> weeklyOut[i].trading_value])
            = SumSeq([k \in 1..Len(dailyIn) |-> dailyIn[k].trading_value])
       /\ dailyIn = TestDaily
            => /\ Len(weeklyOut) = 2
               /\ weeklyOut[1].trading_value = 5500
               /\ weeklyOut[2].trading_value = 5500

\* a history with a week of two different bars and, after an empty week,
\* another bar
C13_Witness ==
    /\ weeklyPc = "done"
    /\ Len(dailyIn) = 3
    /\ Len(weeklyOut) = 2
    /\ weeklyOut[2].week_end = weeklyOut[1].week_end + 14
    /\ weeklyOut[1].open # weeklyOut[1].close - 1

(***************************************************************************)
(* Properties of find_latest_weekly_breakout (SpecBreakout)                *)
(***************************************************************************)
\* 52 times the mean of the 52 weekly closes ending at bar i, i >= 52
Close52(i) == SumSeq([j \in 1..52 |-> frameIn[i - 52 + j].close])

\* the bars that cross their 52-week mean upwards, the mean being defined
\* at the bar and at the bar before it
UpwardCrosses ==
    {i \in 53..Len(frameIn) :
        /\ frameIn[i].close * 52 > Close52(i)
        /\ frameIn[i - 1].close * 52 <= Close52(i - 1)}

\* C14: find_latest_weekly_breakout returns the most recent upward cross of
\* the 52-week mean, never one of the first 52 bars, and none when there
\* is no cross; on 58 closes of 100 followed by 99 and 130 it returns the
\* final bar.
C14_LatestBreakout ==
    breakoutPc = "done"
    => /\ UpwardCrosses = {} => IsNone(breakoutOut)
       /\ UpwardCrosses # {}
            => breakoutOut = Some(frameIn[MaxOf(UpwardCrosses)].week_end)
       /\ \A i \in 1..Len(frameIn) :
            (i <= 52 /\ ~IsNone(breakoutOut)) => Val(breakoutOut) # frameIn[i].week_end
       /\ frameIn = TestFrame => breakoutOut = Some(frameIn[60].week_end)

\* a frame with two upward crosses, the later one returned
C14_Witness ==
    /\ breakoutPc = "done"
    /\ Cardinality(UpwardCrosses) = 2
    /\ ~IsNone(breakoutOut)
    /\ Val(breakoutOut) = frameIn[Len(frameIn)].week_end

(***************************************************************************)
(* Properties of apply_target_price_formula (SpecFormula)                  *)
(***************************************************************************)
\* min(hi, max(lo, x))
Clamped(x, lo, hi) == FMin(hi, FMax(lo, x))

\* the parameters as specified: float rate in [1, 100], multiplier in [0.1, 5]
SpecRate == Clamped(Val(rateIn), Whole(1), Whole(100))
SpecMultiplier == Clamped(Val(multIn), Frac(1, 10), Whole(5))

NumericParameters == ~IsNone(rateIn) /\ ~IsNone(multIn)

UsableCap ==
    ~HasError(baseIn) /\ ~IsNone(baseIn.market_cap) /\ Val(baseIn.market_cap) > 0

\* an optional fraction that is present and equal to f
IsValue(x, f) == ~IsNone(x) /\ FracEq(Val(x), f)

\* C15: for every numeric pair the float rate used is
\* min(100, max(1, float_rate_pct)) and the multiplier used is
\* min(5, max(0.1, multiplier)), also for 0, negative and too large inputs.
\* The rate used shows in floating_cap, the multiplier in target_price.
C15_ClampedParameters ==
    (formulaPc = "done" /\ NumericParameters /\ UsableCap)
    => /\ IsValue(formulaOut.floating_cap,
                  FMul(Whole(Val(baseIn.market_cap)), FDiv(SpecRate, Whole(100))))
       /\ ~IsNone(formulaOut.target_price)
            => FracEq(Val(formulaOut.target_price),
                      FMul(Whole(Val(baseIn.breakout_price)),
                           FAdd(Whole(1), FMul(Val(formulaOut.energy_ratio), SpecMultiplier))))

\* the base of test_apply_target_price_formula_uses_user_float_rate
TestBase ==
    [market_cap |-> Some(1000000), current_price |-> Some(10000),
     breakout_week_end |-> Some(WeekEnd(0)), breakout_price |-> Some(9800),
     breakout_trading_value |-> Some(200000), error |-> None]

\* C16: for a base without error, with market_cap > 0, a breakout price and
\* a breakout trading value: floating_cap = market_cap * rate / 100,
\* energy_ratio = breakout_trading_value / floating_cap,
\* target_price = breakout_price * (1 + energy_ratio * multiplier) and
\* upside_pct = (target_price / current_price - 1) * 100 when
\* current_price > 0, undefined otherwise; the test's numbers give 200000,
\* 1.0, 29400 and 194.0.
C16_FormulaValues ==
    (/\ formulaPc = "done" /\ NumericParameters /\ UsableCap
     /\ ~IsNone(baseIn.breakout_price) /\ ~IsNone(baseIn.breakout_trading_value))
    => LET floating == FMul(Whole(Val(baseIn.market_cap)), FDiv(SpecRate, Whole(100)))
           energy == FDiv(Whole(Val(baseIn.breakout_trading_value)), floating)
           target == FMul(Whole(Val(baseIn.breakout_price)),
                          FAdd(Whole(1), FMul(energy, SpecMultiplier)))
           current == baseIn.current_price
       IN /\ IsValue(formulaOut.floating_cap, floating)
          /\ IsValue(formulaOut.energy_ratio, energy)
          /\ IsValue(formulaOut.target_price, target)
          /\ IF ~IsNone(current) /\ Val(current) > 0
             THEN IsValue(formulaOut.upside_pct,
                          FMul(FSub(FDiv(target, Whole(Val(current))), Whole(1)), Whole(100)))
             ELSE IsNone(formulaOut.upside_pct)
          /\ (baseIn = TestBase /\ rateIn = Some(Whole(20)) /\ multIn = Some(Whole(2)))
             => /\ formulaOut.floating_cap = Some(Whole(200000))
                /\ formulaOut.energy_ratio = Some(Whole(1))
                /\ formulaOut.target_price = Some(Whole(29400))
                /\ formulaOut.upside_pct = Some(Whole(194))

\* C17: a formula-domain failure is an error string in the result: no
\* breakout gives the no-breakout error (also when the market cap is
\* missing too), a breakout with an absent or non-positive market cap gives
\* the market-cap error, and a base that carries an error keeps it.
C17_FormulaErrors ==
    formulaPc = "done"
    => /\ HasError(baseIn) => formulaOut.error = baseIn.error
       /\ (~HasError(baseIn) /\ IsNone(baseIn.breakout_week_end))
            => formulaOut.error = Some(ERROR_NO_BREAKOUT)
       /\ (/\ ~HasError(baseIn) /\ ~IsNone(baseIn.breakout_week_end)
           /\ (IsNone(baseIn.market_cap) \/ Val(baseIn.market_cap) <= 0))
            => formulaOut.error = Some(ERROR_NO_MARKET_CAP)

\* neither a breakout nor a market cap: the no-breakout error is reported
C17_Witness ==
    /\ formulaPc = "done"
    /\ ~HasError(baseIn)
    /\ IsNone(baseIn.breakout_week_end)
    /\ IsNone(baseIn.market_cap)
    /\ formulaOut.error = Some(ERROR_NO_BREAKOUT)

\* C18: a result that carries an error has no target_price and no
\* upside_pct, whatever the base and the parameters.
C18_ErrorMeansNoNumbers ==
    (formulaPc = "done" /\ HasError(formulaOut))
    => IsNone(formulaOut.target_price) /\ IsNone(formulaOut.upside_pct)

(***************************************************************************)
(* Properties of _evaluate_grid (SpecGrid)                                 *)
(***************************************************************************)
TrainEvents == {k \in 1..Len(eventsIn) : eventsIn[k].breakout_date < cutoffIn}
ValidationEvents == {k \in 1..Len(eventsIn) : eventsIn[k].breakout_date >= cutoffIn}

\* the grid points with a positive float rate
ScoredPairs ==
    {p \in (1..Len(ratesIn)) \X (1..Len(multsIn)) : ratesIn[p[1]].num > 0}

RowsOfPair(p) ==
    {r \in 1..Len(gridOut) :
        /\ gridOut[r].float_rate = ratesIn[p[1]]
        /\ gridOut[r].multiplier = multsIn[p[2]]}

\* C19: an event is in the train partition iff its breakout_date is before
\* the cutoff, else in validation; no grid point is scored unless both
\* partitions are non-empty, so the table has no row or exactly one row for
\* every (float_rate > 0, multiplier) pair.
C19_GridPartition ==
    gridPc # "input"
    => /\ (TrainEvents = {} \/ ValidationEvents = {}) => gridOut = <<>>
       /\ (TrainEvents # {} /\ ValidationEvents # {})
            => /\ Len(gridOut) = Cardinality(ScoredPairs)
               /\ \A p \in ScoredPairs : Cardinality(RowsOfPair(p)) = 1
       /\ \A r \in 1..Len(gridOut) :
            /\ gridOut[r].train_events = Cardinality(TrainEvents)
            /\ gridOut[r].valid_events = Cardinality(ValidationEvents)

\* a scored grid whose only validation event is dated at the cutoff, and
\* which skips a float rate of 0
C19_Witness ==
    /\ gridPc = "table"
    /\ gridOut # <<>>
    /\ Cardinality(ValidationEvents) = 1
    /\ \E k \in ValidationEvents : eventsIn[k].breakout_date = cutoffIn
    /\ \E i \in 1..Len(ratesIn) : ratesIn[i].num = 0

\* row a is ranked no lower than row b by (validation hit rate, score,
\* validation average upside), each descending
RankedNoLower(a, b) ==
    \/ FLess(b.valid_hit_rate, a.valid_hit_rate)
    \/ /\ FracEq(a.valid_hit_rate, b.valid_hit_rate)
       /\ FLess(b.valid_balanced_score, a.valid_balanced_score)
    \/ /\ FracEq(a.valid_hit_rate, b.valid_hit_rate)
       /\ FracEq(a.valid_balanced_score, b.valid_balanced_score)
       /\ FracLE(b.valid_avg_target_upside_pct, a.valid_avg_target_upside_pct)

\* C20: the table is in descending order of validation hit rate, then of
\* score, then of validation average upside; a row with a strictly higher
\* validation hit rate is above whatever the scores; main selects the
\* first row.
C20_GridRanking ==
    gridPc # "input"
    => /\ \A r \in 1..(Len(gridOut) - 1) : RankedNoLower(gridOut[r], gridOut[r + 1])
       /\ \A a, b \in 1..Len(gridOut) :
            FLess(gridOut[b].valid_hit_rate, gridOut[a].valid_hit_rate) => a < b
       /\ gridPc = "best" => bestOut = Some(gridOut[1])
       /\ gridPc = "exit" => gridOut = <<>>

\* main has selected a first row that has the higher validation hit rate
\* and the lower score of the first two rows
C20_Witness ==
    /\ gridPc = "best"
    /\ Len(gridOut) >= 2
    /\ bestOut = Some(gridOut[1])
    /\ FLess(gridOut[2].valid_hit_rate, gridOut[1].valid_hit_rate)
    /\ FLess(gridOut[1].valid_balanced_score, gridOut[2].valid_balanced_score)

(***************************************************************************)
(* Properties of main of the calibration job (SpecJob)                     *)
(***************************************************************************)
JobTrain == {k \in 1..Len(jobEvents) : jobEvents[k].breakout_date < jobArgs.validation_start}
JobValidation == {k \in 1..Len(jobEvents) : jobEvents[k].breakout_date >= jobArgs.validation_start}

\* C21: a run that collects no events, or whose train or validation
\* partition is empty, ends with one of the two final errors of main and
\* has written nothing; whatever a run has written, it wrote after a
\* non-empty ranked table existed, and a run that ended with an error has
\* written neither the CSV nor the JSON.
C21_NoOutputOnFailure ==
    /\ (jobPc \notin {"events", "grid"} /\ (jobEvents = <<>> \/ JobTrain = {} \/ JobValidation = {}))
         => /\ jobPc = "exit"
            /\ jobExit \in {Some(EXIT_NO_EVENTS), Some(EXIT_NO_ROWS)}
            /\ jobWritten = {}
    /\ jobPc = "exit" => jobWritten = {} /\ jobExit \in {Some(EXIT_NO_EVENTS), Some(EXIT_NO_ROWS)}
    /\ jobWritten # {} => jobTable # <<>> /\ jobExit = None
    /\ \A f \in jobWritten : f.path = "out_csv" => f.content = jobTable

\* a run with events on one side of the cutoff only has ended with the
\* error of the empty grid
C21_Witness ==
    /\ jobPc = "exit"
    /\ jobEvents # <<>>
    /\ JobValidation = {}
    /\ jobExit = Some(EXIT_NO_ROWS)
    /\ jobWritten = {}

(***************************************************************************)
(* Properties of normalize_ticker_input (SpecNorm)                         *)
(***************************************************************************)
\* C22: normalize_ticker_input is idempotent for every market, input, seed
\* file and universe: normalizing its own result returns that result.
C22_Idempotent ==
    normPc = "twice" => normAgain = normOut

\* the input upper-cased and without its non-alphanumeric characters
AliasKey(text) == SelectSeq(UpperStr(text), IsAlnum)

\* an input the KR branch hands to the alias resolvers: no .KS suffix and
\* no run of 1 to 6 digits in it
IsAliasInput(text) ==
    LET ticker == UpperStr(Strip(text))
        digits == SelectSeq(ticker, IsDigit)
    IN /\ AliasKey(text) # <<>>
       /\ ~EndsWith(ticker, <<".", "K", "S">>)
       /\ digits = <<>> \/ Len(digits) > 6

\* the row's symbol, the symbol without its suffix or its name is the key,
\* or the name contains the key
RowMatches(row, key) ==
    \/ key \in {AliasKey(row.symbol), AliasKey(SplitBase(UpperStr(row.symbol))), AliasKey(row.name)}
    \/ Contains(AliasKey(row.name), key)

MatchingRows(listing, key) == {i \in 1..Len(listing) : RowMatches(listing[i], key)}

AllDigits(text) == text # <<>> /\ \A k \in 1..Len(text) : IsDigit(text[k])

\* C23: on the KR market two alias inputs with the same key (upper-cased,
\* non-alphanumeric characters removed) that matches a universe entry
\* normalize to the same symbol; that symbol is the one of the first
\* matching universe entry when the seed file has no matching row; an input
\* of 1 to 6 digits becomes the zero-padded 6-digit code with .KS.
C23_AliasByKey ==
    (normMarket = "KR_TOP200" /\ normPc # "input")
    => /\ (IsAliasInput(tickerIn) /\ MatchingRows(universeIn, AliasKey(tickerIn)) # {})
            => /\ \A other \in TickerInputs :
                    (IsAliasInput(other) /\ AliasKey(other) = AliasKey(tickerIn))
                    => normalize_ticker_input(normMarket, seedIn, universeIn, other) = normOut
               /\ MatchingRows(seedIn, AliasKey(tickerIn)) = {}
                    => \E i \in MatchingRows(universeIn, AliasKey(tickerIn)) :
                        /\ \A j \in MatchingRows(universeIn, AliasKey(tickerIn)) : i <= j
                        /\ normOut = UpperStr(universeIn[i].symbol)
       /\ (AllDigits(tickerIn) /\ Len(tickerIn) <= 6)
            => /\ Len(normOut) = 9
               /\ SubSeq(normOut, 7, 9) = <<".", "K", "S">>
               /\ SubSeq(normOut, 7 - Len(tickerIn), 6) = tickerIn
               /\ \A k \in 1..(6 - Len(tickerIn)) : normOut[k] = "0"

\* "s oil" was resolved to 010950.KS through the one-row universe of the
\* test, with no seed row for it
C23_Witness ==
    /\ normMarket = "KR_TOP200"
    /\ normPc = "once"
    /\ tickerIn = <<" ", "s", " ", "o", "i", "l">>
    /\ universeIn = <<S_OIL_ROW>>
    /\ MatchingRows(seedIn, AliasKey(tickerIn)) = {}
    /\ normOut = <<"0", "1", "0", "9", "5", "0", ".", "K", "S">>

(***************************************************************************)
(* Properties of _extract_ocf_data (SpecOcf)                               *)
(***************************************************************************)
\* C24: whenever the annual cash-flow statement has an OCF row, ocf_ttm is
\* the newest value of that row, whatever info.operatingCashflow holds, and
\* ocf_q is the quarterly row (empty without a quarterly statement).
C24_StatementOverInfo ==
    ocfPc = "done"
    => /\ ocfIn.annual_ocf # <<>> => ocfOut.ocf_ttm = Some(Whole(ocfIn.annual_ocf[1]))
       /\ ocfOut.ocf_q = FirstN(ocfIn.quarterly_ocf, OCF_QUARTERS)

(***************************************************************************)
(* Properties of _detect_breakout_rows (SpecDetect)                        *)
(***************************************************************************)
\* the bars with close, MA52, High and trading value all present
CompleteBars == SelectSeq(detIn, LAMBDA row : row.ma52 # None /\ row.high # None)

Ma52Of(k) == CompleteBars[k].ma52[1]

\* the close is above MA52 at bar k and was not at the bar before
UpwardCrossAt(k) ==
    /\ k >= 2
    /\ FLess(Ma52Of(k), Whole(CompleteBars[k].close))
    /\ FracLE(Whole(CompleteBars[k - 1].close), Ma52Of(k - 1))

\* the crosses with positive price and trading value and a later bar
EventBars ==
    {k \in 1..Len(CompleteBars) :
        /\ UpwardCrossAt(k)
        /\ CompleteBars[k].close > 0
        /\ CompleteBars[k].trading_value > 0
        /\ k < Len(CompleteBars)
        /\ detHorizon >= 1}

LaterBars(k) == {m \in 1..Len(CompleteBars) : k < m /\ m <= k + detHorizon}

\* C25: with a positive market cap there is one event, in date order, for
\* every upward cross that has positive price and trading value and a
\* later bar; its future_max_high is the highest High of the up to
\* horizon_weeks bars after the breakout bar; a cross on the final bar
\* gives no event.
C25_EventsOfCrosses ==
    (detPc # "input" /\ detCap > 0)
    => /\ Len(detOut) = Cardinality(EventBars)
       /\ \A j \in 1..Len(detOut) :
            LET k == Ascending(EventBars)[j]
            IN /\ detOut[j].breakout_date = CompleteBars[k].week_end
               /\ detOut[j].breakout_price = CompleteBars[k].close
               /\ detOut[j].breakout_trading_value = CompleteBars[k].trading_value
               /\ detOut[j].market_cap = detCap
               /\ \E m \in LaterBars(k) : detOut[j].future_max_high = CompleteBars[m].high[1]
               /\ \A m \in LaterBars(k) : CompleteBars[m].high[1] <= detOut[j].future_max_high
       /\ \A j \in 1..Len(detOut) :
            detOut[j].breakout_date # CompleteBars[Len(CompleteBars)].week_end

\* an event for the first of two crosses, whose own High is above every
\* later High, and none for the cross on the final bar
C25_Witness ==
    /\ detPc = "events"
    /\ Len(detIn) = 4
    /\ CompleteBars = detIn
    /\ UpwardCrossAt(2) /\ UpwardCrossAt(4)
    /\ Len(detOut) = 1
    /\ detIn[2].high = Some(140)
    /\ detOut[1].future_max_high = 135
    /\ detHorizon = 2

C27_GridTargetIsFormulaTarget ==
    (pointPc = "both" /\ pointGrid # None)
    => /\ pointFormula.target_price = Some(pointGrid[1].target)
       /\ pointGrid[1].hit
            <=> /\ pointFormula.target_price # None
                /\ FracLE(pointFormula.target_price[1], Whole(pointEvent.future_max_high))

(***************************************************************************)
(* Properties of repeated formula calls on one base (SpecCached)           *)
(***************************************************************************)
\* C28: after any sequence of calls the base is the dict that was built,
\* and every call returned what the same call returns on the base as
\* built: nothing of an earlier call is in a later result.
C28_BaseUntouched ==
    /\ heldBase = builtBase
    /\ \A k \in 1..Len(callLog) :
        callLog[k].result =
            apply_target_price_formula(builtBase, callLog[k].float_rate_pct, callLog[k].multiplier)

\* two calls with different parameters gave two different target prices
C28_Witness ==
    /\ Len(callLog) = 2
    /\ callLog[1].float_rate_pct # callLog[2].float_rate_pct
    /\ callLog[1].result.target_price # None
    /\ callLog[2].result.target_price # None
    /\ callLog[1].result.target_price # callLog[2].result.target_price
    /\ heldBase = builtBase

(***************************************************************************)
(* Properties of the cache files (SpecCache)                               *)
(***************************************************************************)
HasRows(c) == diskFrames[c] # None /\ diskFrames[c][1] # <<>>

\* C29: once a non-empty frame is saved for a country, no step of an app
\* load or of a daily_refresh run replaces it with an empty frame.
C29_NonEmptyFrameKept ==
    [][\A c \in CountrySet : HasRows(c) => (diskFrames'[c] # None /\ diskFrames'[c][1] # <<>>)]_vars

Quiescent ==
    /\ \A s \in Sessions : sessions[s].pc = "idle"
    /\ refreshJob.pc = "idle"

\* C30: whenever every save_meta call has returned, the meta file holds a
\* timestamp for every country whose refresh was saved, whatever the
\* interleaving of the calls.
C30_NoLostTimestamp ==
    Quiescent => \A c \in CountrySet : diskFrames[c] # None => metaFile[c] # None
====
